---- MODULE Spec2Model ----
(***************************************************************************)
(* Model of the mod scanner (src/src/scanner.py) and of the metadata       *)
(* extractors it drives (src/src/extractors/*.py).                         *)
(*                                                                         *)
(* Text (file names, error messages, names, versions) is a sequence of     *)
(* tokens, so that concatenation is \o and "s contains t" is "t is a       *)
(* contiguous run of s".  An Optional value is a sequence of length at     *)
(* most one: << >> is None.                                                *)
(***************************************************************************)
EXTENDS Integers, Sequences, FiniteSets, Bags, TLC

VARIABLES
    root,           \* what folder_path names: nothing, a file or a directory
    dir_files,      \* the files below folder_path, in directory order
    recursive,      \* scan_folder argument
    include_disabled, \* scan_folder argument
    exclude_patterns, \* scan_folder argument
    progress_callback, \* scan_folder argument: what the callback does, if any
    all_files,      \* scan_folder: the candidate archives after discovery
    workers,        \* ModScanner.workers
    extractors,     \* ModScanner.extractors (sorted by priority)
    tomllib,        \* forge.py: whether a TOML parser could be imported
    hash_seed,      \* the process's string hash seed (orders the elements of a set)
    version_constraint, \* _parse_mc_versions: the argument of a direct call
    versions,       \* _parse_mc_versions: what the direct call returned, if it has
    pc,             \* scan_folder: position of the calling (collecting) thread
    future_to_jar,  \* scan_folder: future id -> index of its archive in all_files
    futures,        \* the pool's futures: state, arguments and result of each task
    work_queue,     \* the pool's FIFO queue of submitted, not yet started tasks
    yielded,        \* the futures as_completed has handed out, in order
    cur,            \* the future the collecting loop body is working on (0: none)
    completed,      \* scan_folder: the completed counter
    result,         \* scan_folder: the ScanResult aggregate
    calls,          \* history: per future, the extractor methods its task called
    appendLog,      \* history: who appended what to the aggregate
    progress,       \* history: the arguments of each progress_callback call
    raised          \* the exception scan_folder ended with, if any

\* What the caller chooses: the scanner's construction, the arguments of
\* scan_folder and the file system it runs on.  No step changes them.
inputs == <<root, dir_files, recursive, include_disabled, exclude_patterns,
            progress_callback, workers, extractors, tomllib, hash_seed,
            version_constraint>>

vars == <<inputs, all_files, pc, future_to_jar, futures, work_queue, yielded,
          cur, completed, result, calls, appendLog, progress, raised, versions>>

\* Bounds of the model.
MaxFiles == 3
MaxWorkers == 2
MaxEntries == 3
MaxNameLen == 2
MaxFaultyEntries == 2
MaxParts == 3
MaxLen == 4
MaxItems == 2
MaxSeed == 5

MainThread == "main"

----------------------------------------------------------------------------
\* Text helpers.

\* t occurs in s as a contiguous run of tokens.
ContainsSeq(s, t) ==
    \E k \in 0..(Len(s) - Len(t)) : SubSeq(s, k + 1, k + Len(t)) = t

Some(x) == <<x>>

\* None, where a text is expected: a token no text is made of.
None == <<"None">>

\* bool(x) of a text or None
Truthy(x) == x # << >> /\ x # None

\* The elements of a list, as a set.
Range(list) == { list[k] : k \in 1..Len(list) }

----------------------------------------------------------------------------
\* Archives.

FABRIC_FILE == "fabric.mod.json"
QUILT_FILE == "quilt.mod.json"
NEOFORGE_TOML == "META-INF/neoforge.mods.toml"
FORGE_TOML == "META-INF/mods.toml"
MCMOD_INFO == "mcmod.info"
MANIFEST == "META-INF/MANIFEST.MF"

TOML_FILES == <<NEOFORGE_TOML, FORGE_TOML>>

EntryNames == {FABRIC_FILE, QUILT_FILE, NEOFORGE_TOML, FORGE_TOML, MCMOD_INFO, MANIFEST}

\* An archive on disk:
\*   base      the file name without its .jar / .jar.disabled suffix
\*   disabled  the file is named *.jar.disabled
\*   container "zip" (a readable archive), "badzip" (zipfile.BadZipFile on
\*             opening), "oserror" (any other exception on opening)
\*   files     the entry names of the archive (jar.namelist())
\*   bad       the entries whose content the extractor reading them cannot
\*             use: malformed JSON or TOML, a document of the wrong shape, a
\*             manifest without both a title and a version
Archive(base, disabled, container, files, bad) ==
    [base |-> base, disabled |-> disabled, container |-> container,
     files |-> files, bad |-> bad]

\* jar_path.name
JarName(a) ==
    a.base \o <<".jar">> \o (IF a.disabled THEN <<".disabled">> ELSE << >>)

\* jar_path.stem: the name without its last suffix
JarStem(a) == SubSeq(JarName(a), 1, Len(JarName(a)) - 1)

\* str.lower() on the tokens file names are made of
LowerTok(t) ==
    CASE t = "Fabric" -> "fabric"
      [] t = "NeoForge" -> "neoforge"
      [] t = "Forge" -> "forge"
      [] t = "Quilt" -> "quilt"
      [] OTHER -> t

\* x in t, for a lower-case token t
TokContains(t, x) == t = x \/ (t = "neoforge" /\ x = "forge")

\* x in filename.lower()
NameContains(name, x) ==
    \E k \in 1..Len(name) : TokContains(LowerTok(name[k]), x)

----------------------------------------------------------------------------
\* ModInfo and ScanResult (models.py).

\* ModInfo(name=, loader=, version=, filename=, disabled=): the other fields
\* take their defaults.
ModInfo(name, loader, version, filename, disabled) ==
    [name |-> name, loader |-> loader, version |-> version,
     filename |-> filename, mod_id |-> None, dependencies |-> << >>,
     author |-> None, description |-> None, mc_versions |-> << >>,
     disabled |-> disabled]

\* ModInfo(...) with mod_id, dependencies, author, description and
\* mc_versions given, as the extractors build it.
ModInfoOf(name, loader, version, filename, mod_id, dependencies, author, description, mc_versions) ==
    [name |-> name, loader |-> loader, version |-> version,
     filename |-> filename, mod_id |-> mod_id, dependencies |-> dependencies,
     author |-> author, description |-> description,
     mc_versions |-> mc_versions, disabled |-> FALSE]

ScanResult(total) == [mods |-> << >>, errors |-> << >>, total_files |-> total]

----------------------------------------------------------------------------
\* Metadata documents.  A parsed document is a function from its keys to
\* their values (a dict); a key the document does not declare is outside
\* its DOMAIN.

Get(d, key, default) == IF key \in DOMAIN d THEN d[key] ELSE default

\* What a usable JSON metadata file declares, the nesting of
\* quilt.mod.json (quilt_loader, metadata) flattened:
\*   id, name, version, description   a text, or None for a JSON null
\*   authors                          a list of texts
\*   depends, recommends              the entries in document order, each
\*                                    with its id and its version constraint
\*                                    (JNull if it has none); an entry of a
\*                                    Quilt list is an object or a bare string
\* An archive may carry its own document in a.json.
DefaultJson ==
    [id |-> <<"examplemod">>, name |-> <<"Example", "Mod">>, version |-> <<"1.0.0">>]

JsonData(a, f) == IF "json" \in DOMAIN a THEN a.json ELSE DefaultJson

\* The TOML document of entry f: mods[0] flattened (modId, displayName,
\* version), the top-level modLoader and loaderVersion, and the modIds of
\* the declared dependencies.  An archive may carry its own documents in
\* a.toml.
DefaultToml ==
    [modId |-> <<"examplemod">>, displayName |-> <<"Example", "Mod">>,
     version |-> <<"1.0.0">>, modLoader |-> <<"javafml">>,
     loaderVersion |-> <<"[", "47", ",)">>,
     dependencies |-> << <<"minecraft">>, <<"forge">> >>]

TomlData(a, f) == IF "toml" \in DOMAIN a THEN a.toml[f] ELSE DefaultToml

ManifestData(a) ==
    [name |-> <<"Example", "Title">>, version |-> <<"2.0">>]

----------------------------------------------------------------------------
\* The version-constraint parser (extractors/base.py).  A constraint
\* string is a sequence of characters.

\* The JSON values a version constraint may be: null, a string, a list of
\* such values, or a value of any other type (a number).
JNull == [type |-> "null", chars |-> << >>, items |-> << >>]
JStr(chars) == [type |-> "str", chars |-> chars, items |-> << >>]
JList(items) == [type |-> "list", chars |-> << >>, items |-> items]
JNumber == [type |-> "number", chars |-> << >>, items |-> << >>]

\* The characters constraint strings are made of, by ascending code point.
Ord(c) ==
    LET code_points ==
            <<" ", "(", ")", "*", ",", ".", "0", "1", "2", "3", "4", "5", "6", "7", "8",
              "9", "<", "=", ">", "[", "]", "^", "x", "~">>
    IN  CHOOSE k \in 1..Len(code_points) : code_points[k] = c

Digits == {"0", "1", "2", "3", "4", "5", "6", "7", "8", "9"}   \* \d
Spaces == {" "}                                                  \* \s

\* The position after the longest run of characters of class cls that
\* starts at position i of s (a greedy cls*).
RECURSIVE Skip(_, _, _)
Skip(s, i, cls) ==
    IF i <= Len(s) /\ s[i] \in cls THEN Skip(s, i + 1, cls) ELSE i

\* \d+\.\d+ matched at position i: the position after the match, 0 if
\* there is none.
MajorMinorEnd(s, i) ==
    LET Minor(d1, d2) == IF d2 = d1 + 1 THEN 0 ELSE d2
        Major(d1) ==
            IF d1 = i \/ d1 > Len(s) \/ s[d1] # "." THEN 0
            ELSE Minor(d1, Skip(s, d1 + 1, Digits))
    IN  Major(Skip(s, i, Digits))

\* \d+\.\d+(?:\.\d+)? matched at position i: the position after the
\* match, 0 if there is none.  The optional group is greedy.
VersionEnd(s, i) ==
    LET Patch(d2) ==
            IF d2 = 0 THEN 0
            ELSE IF d2 <= Len(s) /\ s[d2] = "." /\ Skip(s, d2 + 1, Digits) > d2 + 1
                 THEN Skip(s, d2 + 1, Digits)
                 ELSE d2
    IN  Patch(MajorMinorEnd(s, i))

\* MC_VERSION_PATTERNS (base.py 18-28), in order.
MC_VERSION_PATTERNS == <<"exact", "range", "maven_lower", "maven_upper", "wildcard">>

\* A match: the position after it and the text of its group 1.
Match(to, group) == [to |-> to, group |-> group]

\* pattern.match at position i of s: the match, or None.
MatchAt(pattern, s, i) ==
    CASE pattern = "exact" ->
            \* ^(\d+\.\d+(?:\.\d+)?)$
            IF i = 1 /\ VersionEnd(s, 1) = Len(s) + 1
            THEN Some(Match(Len(s) + 1, s)) ELSE << >>
      [] pattern = "range" ->
            \* [><=~^]*\s*(\d+\.\d+(?:\.\d+)?)
            LET Version(j, e) == IF e # 0 THEN Some(Match(e, SubSeq(s, j, e - 1))) ELSE << >>
                From(j) == Version(j, VersionEnd(s, j))
            IN  From(Skip(s, Skip(s, i, {">", "<", "=", "~", "^"}), Spaces))
      [] pattern = "maven_lower" ->
            \* [\[\(](\d+\.\d+(?:\.\d+)?)\s*,
            LET Comma(e, k) ==
                    IF s[i] \in {"[", "("} /\ e # 0 /\ k <= Len(s) /\ s[k] = ","
                    THEN Some(Match(k + 1, SubSeq(s, i + 1, e - 1))) ELSE << >>
                Version(e) == Comma(e, Skip(s, e, Spaces))
            IN  Version(VersionEnd(s, i + 1))
      [] pattern = "maven_upper" ->
            \* ,\s*(\d+\.\d+(?:\.\d+)?)[\]\)]
            LET Version(j, e) ==
                    IF s[i] = "," /\ e # 0 /\ e <= Len(s) /\ s[e] \in {"]", ")"}
                    THEN Some(Match(e + 1, SubSeq(s, j, e - 1))) ELSE << >>
                From(j) == Version(j, VersionEnd(s, j))
            IN  From(Skip(s, i + 1, Spaces))
      [] pattern = "wildcard" ->
            \* (\d+\.\d+)(?:\.[x*])?
            LET Wildcard(e) ==
                    IF e = 0 THEN << >>
                    ELSE IF e + 1 <= Len(s) /\ s[e] = "." /\ s[e + 1] \in {"x", "*"}
                         THEN Some(Match(e + 2, SubSeq(s, i, e - 1)))
                         ELSE Some(Match(e, SubSeq(s, i, e - 1)))
            IN  Wildcard(MajorMinorEnd(s, i))

\* FindIter collecting the whole text of each match (group 0).
RECURSIVE FindIterWholeMatch(_, _, _)
FindIterWholeMatch(pattern, s, i) ==
    IF i > Len(s) THEN << >>
    ELSE LET Found(m) ==
                 IF m = << >> THEN FindIterWholeMatch(pattern, s, i + 1)
                 ELSE <<SubSeq(s, i, m[1].to - 1)>> \o FindIterWholeMatch(pattern, s, m[1].to)
         IN  Found(MatchAt(pattern, s, i))

\* pattern.finditer(s) from position i on: group 1 of the leftmost match,
\* then of the leftmost match after it, and so on.
RECURSIVE FindIter(_, _, _)
FindIter(pattern, s, i) ==
    IF i > Len(s) THEN << >>
    ELSE LET Found(m) ==
                 IF m = << >> THEN FindIter(pattern, s, i + 1)
                 ELSE <<m[1].group>> \o FindIter(pattern, s, m[1].to)
         IN  Found(MatchAt(pattern, s, i))

\* str.strip()
RECURSIVE Strip(_)
Strip(s) ==
    IF s # << >> /\ s[1] \in Spaces THEN Strip(Tail(s))
    ELSE IF s # << >> /\ s[Len(s)] \in Spaces THEN Strip(SubSeq(s, 1, Len(s) - 1))
    ELSE s

\* len(version.split('.'))
Parts(version) == 1 + Cardinality({ k \in 1..Len(version) : version[k] = "." })

\* s < t for two strings: by code point, a proper prefix first.
RECURSIVE LexLess(_, _)
LexLess(s, t) ==
    IF t = << >> THEN FALSE
    ELSE IF s = << >> THEN TRUE
    ELSE IF s[1] # t[1] THEN Ord(s[1]) < Ord(t[1])
    ELSE LexLess(Tail(s), Tail(t))

\* sorted(set)
RECURSIVE Sorted(_)
Sorted(set) ==
    IF set = {} THEN << >>
    ELSE LET least == CHOOSE x \in set : \A y \in set \ {x} : LexLess(x, y)
         IN  <<least>> \o Sorted(set \ {least})

RECURSIVE Factorial(_)
Factorial(n) == IF n = 0 THEN 1 ELSE n * Factorial(n - 1)

\* The k-th arrangement of the elements of list.
RECURSIVE Arrangement(_, _)
Arrangement(list, k) ==
    IF list = << >> THEN << >>
    ELSE LET f == Factorial(Len(list) - 1)
             i == ((k \div f) % Len(list)) + 1
         IN  <<list[i]>> \o
             Arrangement(SubSeq(list, 1, i - 1) \o SubSeq(list, i + 1, Len(list)), k % f)

\* list(set): the elements in the order of their slots in the hash table,
\* which the hash seed of the process decides; every arrangement is the
\* result under some seed.
SetToList(set) == Arrangement(Sorted(set), hash_seed)

\* The string branch of _parse_mc_versions (base.py 134-147)
ParseString(chars) ==
    LET constraint == Strip(chars)
        found == UNION { Range(FindIter(MC_VERSION_PATTERNS[p], constraint, 1)) :
                           p \in 1..Len(MC_VERSION_PATTERNS) }
    IN  Sorted({ version \in found : version # << >> /\ Parts(version) >= 2 })

\* BaseExtractor._parse_mc_versions (base.py 111-147)
RECURSIVE ParseMcVersions(_)
ParseMcVersions(c) ==
    IF c.type = "null" \/ (c.type = "str" /\ c.chars = << >>)
       \/ (c.type = "list" /\ c.items = << >>)
    THEN << >>
    ELSE IF c.type = "list"
    THEN SetToList(UNION { Range(ParseMcVersions(c.items[k])) : k \in 1..Len(c.items) })
    ELSE IF c.type # "str" THEN << >>
    ELSE ParseString(c.chars)

----------------------------------------------------------------------------
\* Extractors (extractors/__init__.py, fabric.py, quilt.py, forge.py).

Fabric == "Fabric"
Quilt == "Quilt"
ForgeToml == "Forge/NeoForge TOML"
LegacyForge == "Legacy Forge"

ALL_EXTRACTORS == <<Fabric, Quilt, ForgeToml, LegacyForge>>

Priority(e) ==
    CASE e = Fabric -> 1
      [] e = Quilt -> 2
      [] e = ForgeToml -> 3
      [] e = LegacyForge -> 4

\* SortByPriority by a constructor that keeps the list as it was given.
KeepGivenOrder(list) == list

\* sorted(extractors, key=lambda e: e.priority): a stable sort
RECURSIVE SortByPriority(_)
SortByPriority(list) ==
    IF list = << >> THEN << >>
    ELSE LET m == CHOOSE k \in 1..Len(list) :
                      /\ \A j \in 1..Len(list) : Priority(list[k]) <= Priority(list[j])
                      /\ \A j \in 1..(k - 1) : Priority(list[j]) > Priority(list[k])
             rest == [j \in 1..(Len(list) - 1) |-> IF j < m THEN list[j] ELSE list[j + 1]]
         IN  <<list[m]>> \o SortByPriority(rest)

\* FindTomlFile preferring mods.toml.
FindTomlFileForgeFirst(files) ==
    IF TOML_FILES[2] \in files THEN Some(TOML_FILES[2])
    ELSE IF TOML_FILES[1] \in files THEN Some(TOML_FILES[1])
    ELSE << >>

\* ForgeTomlExtractor._find_toml_file: neoforge.mods.toml is preferred
FindTomlFile(files) ==
    IF TOML_FILES[1] \in files THEN Some(TOML_FILES[1])
    ELSE IF TOML_FILES[2] \in files THEN Some(TOML_FILES[2])
    ELSE << >>

CanExtract(e, a) ==
    CASE e = Fabric -> FABRIC_FILE \in a.files
      [] e = Quilt -> QUILT_FILE \in a.files
      [] e = ForgeToml ->
            IF ~tomllib THEN FALSE
            ELSE \E k \in 1..Len(TOML_FILES) : TOML_FILES[k] \in a.files
      [] e = LegacyForge -> MCMOD_INFO \in a.files

\* str.lower() of a text
Lower(text) == [k \in 1..Len(text) |-> LowerTok(text[k])]

\* DetectLoader without the rule on the declared dependencies.
DetectLoaderWithoutDependencies(toml_file, data, a) ==
    IF toml_file = NEOFORGE_TOML THEN "neoforge"
    ELSE IF NameContains(Get(data, "modLoader", << >>), "neoforge") THEN "neoforge"
    ELSE IF NameContains(JarName(a), "neoforge") THEN "neoforge"
    ELSE IF NameContains(Get(data, "loaderVersion", << >>), "neoforge") THEN "neoforge"
    ELSE "forge"

\* ForgeTomlExtractor._detect_loader
DetectLoader(toml_file, data, a) ==
    IF toml_file = NEOFORGE_TOML THEN "neoforge"
    ELSE IF NameContains(Get(data, "modLoader", << >>), "neoforge") THEN "neoforge"
    ELSE IF \E dep \in Range(Get(data, "dependencies", << >>)) : Lower(dep) = <<"neoforge">>
         THEN "neoforge"
    ELSE IF NameContains(JarName(a), "neoforge") THEN "neoforge"
    ELSE IF NameContains(Get(data, "loaderVersion", << >>), "neoforge") THEN "neoforge"
    ELSE "forge"

\* The outcome of a call: a returned value, or a raised exception.
Returned(v) == [val |-> v, exc |-> << >>]
Raised(x) == [val |-> << >>, exc |-> Some(x)]

\* json.JSONDecodeError and the TOML parser's decode error; the exception
\* of using a value of the wrong type; zipfile.BadZipFile.
DECODE_ERROR == "DecodeError"
TYPE_ERROR == "AttributeError"
BAD_ZIP_FILE == "BadZipFile"

\* Why the unusable entries of an archive are unusable (a.fault):
\*   "malformed"   no JSON / TOML at all, undecodable bytes included
\*   "wrongtype"   a document with a value of another type than the code
\*                 uses it as (a JSON list for an object, a number for a string)
\*   "unreadable"  the entry cannot be read from the archive
\*   "empty"       a document that declares no mod (no mods array, an empty
\*                 mcmod.info list, a manifest without title and version)
\* An archive that does not say holds malformed entries.
FaultKinds == {"malformed", "wrongtype", "unreadable", "empty"}
FaultOf(a) == IF "fault" \in DOMAIN a THEN a.fault ELSE "malformed"

\* jar.open(f), read, decode, parse and use of the document inside the try
\* block of an extractor: the document is usable, or it declares no mod
\* (None), or an exception is raised.
ReadEntry(a, f) ==
    IF f \notin a.bad THEN Returned(Some(f))
    ELSE CASE FaultOf(a) = "malformed" -> Raised(DECODE_ERROR)
           [] FaultOf(a) = "wrongtype" -> Raised(TYPE_ERROR)
           [] FaultOf(a) = "unreadable" -> Raised(BAD_ZIP_FILE)
           [] OTHER -> Returned(<< >>)

\* An entry of a dependency declaration: a key of a mapping with its value
\* ("key"), an object of a list ("object"), a bare string of a list
\* ("string"); its id (None if an object has none) and its version
\* constraint.
Entry(kind, id, constraint) == [kind |-> kind, id |-> id, versions |-> constraint]

MINECRAFT == <<"minecraft">>

\* BaseExtractor._extract_dependencies (base.py 63-79) on one field: the
\* keys of a mapping, the strings of a list and the truthy ids of its objects.
RECURSIVE DependencyIds(_)
DependencyIds(deps) ==
    IF deps = << >> THEN << >>
    ELSE (IF deps[1].kind = "object" /\ ~Truthy(deps[1].id) THEN << >> ELSE <<deps[1].id>>)
         \o DependencyIds(Tail(deps))

\* BaseExtractor._extract_dependencies (base.py 63-79)
RECURSIVE ExtractDependencies(_, _)
ExtractDependencies(data, dep_fields) ==
    IF dep_fields = << >> THEN << >>
    ELSE DependencyIds(Get(data, dep_fields[1], << >>))
         \o ExtractDependencies(data, Tail(dep_fields))

\* ', '.join(names)
RECURSIVE JoinComma(_)
JoinComma(names) ==
    IF Len(names) = 1 THEN names[1]
    ELSE names[1] \o <<", ">> \o JoinComma(Tail(names))

\* BaseExtractor._normalize_authors (base.py 81-109) on a list of strings;
\* no list and the empty list are both << >>.
NormalizeAuthors(authors) ==
    LET names == SelectSeq([k \in 1..Len(authors) |-> Strip(authors[k])],
                           LAMBDA name : name # << >>)
    IN  IF names = << >> THEN None ELSE JoinComma(names)

\* description.strip() or None, None if it is no string
Description(data) ==
    LET description == Get(data, "description", None) IN
    IF description # None /\ Strip(description) # << >> THEN Strip(description) ELSE None

\* The record FabricExtractor.extract builds from the document (fabric.py
\* 39-73).
FabricRecord(a) ==
    LET data == JsonData(a, FABRIC_FILE)
        depends == Get(data, "depends", << >>)
        minecraft == SelectSeq(depends, LAMBDA d : d.kind = "key" /\ d.id = MINECRAFT)
    IN  ModInfoOf(Get(data, "name", Get(data, "id", JarStem(a))), "fabric",
                  Get(data, "version", <<"Unknown">>), JarName(a),
                  Get(data, "id", << >>),
                  ExtractDependencies(data, <<"depends", "recommends">>),
                  NormalizeAuthors(Get(data, "authors", << >>)), Description(data),
                  IF minecraft # << >> THEN ParseMcVersions(minecraft[1].versions)
                  ELSE << >>)

\* FabricExtract with json.JSONDecodeError as its only handler.
FabricExtractCatchesDecodeOnly(a) ==
    LET r == ReadEntry(a, FABRIC_FILE) IN
    IF r.exc = Some(DECODE_ERROR) THEN Returned(<< >>)
    ELSE IF r.exc # << >> THEN r
    ELSE IF r.val = << >> THEN Returned(<< >>)
    ELSE Returned(Some(FabricRecord(a)))

\* FabricExtractor.extract: both handlers (fabric.py 75-80) return None.
FabricExtract(a) ==
    LET r == ReadEntry(a, FABRIC_FILE) IN
    IF r.exc # << >> THEN Returned(<< >>)
    ELSE IF r.val = << >> THEN Returned(<< >>)
    ELSE Returned(Some(FabricRecord(a)))

\* The loop over the depends list of quilt.mod.json (quilt.py 47-63): the
\* dependency ids and the Minecraft versions after the entries from
\* position i on, starting from (dependencies, mc_versions).
RECURSIVE QuiltDepends(_, _, _, _)
QuiltDepends(depends, i, dependencies, mc_versions) ==
    IF i > Len(depends) THEN [dependencies |-> dependencies, mc_versions |-> mc_versions]
    ELSE LET dep == depends[i] IN
         IF dep.kind = "object" /\ Truthy(dep.id)
         THEN IF dep.id = MINECRAFT
              THEN QuiltDepends(depends, i + 1, dependencies, ParseMcVersions(dep.versions))
              ELSE QuiltDepends(depends, i + 1, Append(dependencies, dep.id), mc_versions)
         ELSE IF dep.kind = "string"
         THEN QuiltDepends(depends, i + 1, Append(dependencies, dep.id), mc_versions)
         ELSE QuiltDepends(depends, i + 1, dependencies, mc_versions)

\* The record QuiltExtractor.extract builds from the document (quilt.py
\* 40-93).  The documents declare no contributors.
QuiltRecord(a) ==
    LET data == JsonData(a, QUILT_FILE)
        mod_id == Get(data, "id", << >>)
        Record(scanned) ==
            ModInfoOf(Get(data, "name", IF Truthy(mod_id) THEN mod_id ELSE JarStem(a)), "quilt",
                      Get(data, "version", <<"Unknown">>), JarName(a), mod_id,
                      scanned.dependencies,
                      NormalizeAuthors(Get(data, "authors", << >>)), Description(data),
                      scanned.mc_versions)
    IN  Record(QuiltDepends(Get(data, "depends", << >>), 1, << >>, << >>))

\* QuiltExtractor.extract (quilt.py 33-102)
QuiltExtract(a) ==
    LET r == ReadEntry(a, QUILT_FILE) IN
    IF r.exc # << >> THEN Returned(<< >>)
    ELSE IF r.val = << >> THEN Returned(<< >>)
    ELSE Returned(Some(QuiltRecord(a)))

\* ForgeTomlExtractor._extract_dependencies_from_toml: the modIds declared
\* for the mod, but for the implicit ones.
ExtractDependenciesFromToml(data) ==
    SelectSeq(Get(data, "dependencies", << >>),
              LAMBDA dep : dep # << >> /\ dep \notin { MINECRAFT, <<"forge">>, <<"neoforge">> })

\* ForgeTomlExtractor._extract_mc_versions_from_toml: the versionRange of
\* the first dependency on minecraft, which no dependency of these
\* documents declares (the default is the empty string).
ExtractMcVersionsFromToml(data) ==
    IF \E dep \in Range(Get(data, "dependencies", << >>)) : Lower(dep) = MINECRAFT
    THEN ParseMcVersions(JStr(<< >>))
    ELSE << >>

\* ForgeTomlExtractor.extract (forge.py 142-207): _find_toml_file runs
\* before the try block, everything else inside it.  The documents
\* declare neither authors nor a description.
ForgeTomlExtract(a) ==
    LET toml_file == FindTomlFile(a.files) IN
    IF toml_file = << >> THEN Returned(<< >>)
    ELSE LET r == ReadEntry(a, toml_file[1]) IN
         IF r.exc # << >> THEN Returned(<< >>)
         ELSE IF r.val = << >> THEN Returned(<< >>)
         ELSE LET data == TomlData(a, toml_file[1]) IN
              Returned(Some(ModInfoOf(
                  Get(data, "displayName", Get(data, "modId", JarStem(a))),
                  DetectLoader(toml_file[1], data, a),
                  Get(data, "version", <<"Unknown">>), JarName(a),
                  Get(data, "modId", << >>), ExtractDependenciesFromToml(data),
                  None, None, ExtractMcVersionsFromToml(data))))

\* LegacyForgeExtractor.extract (forge.py 245-308); id stands for the
\* document's modid.  The documents declare no dependencies, requiredMods
\* or mcversion.
LegacyForgeExtract(a) ==
    LET r == ReadEntry(a, MCMOD_INFO) IN
    IF r.exc # << >> THEN Returned(<< >>)
    ELSE IF r.val = << >> THEN Returned(<< >>)
    ELSE LET data == JsonData(a, MCMOD_INFO) IN
         Returned(Some(ModInfoOf(Get(data, "name", Get(data, "id", JarStem(a))), "forge",
                                 Get(data, "version", <<"Unknown">>), JarName(a),
                                 Get(data, "id", << >>), << >>,
                                 NormalizeAuthors(Get(data, "authors", << >>)),
                                 Description(data), << >>)))

\* extractor.extract(jar, jar_path, files): the call returns a ModInfo or
\* None, or raises.
Extract(e, a) ==
    CASE e = Fabric -> FabricExtract(a)
      [] e = Quilt -> QuiltExtract(a)
      [] e = ForgeToml -> ForgeTomlExtract(a)
      [] e = LegacyForge -> LegacyForgeExtract(a)

----------------------------------------------------------------------------
\* ModScanner: the inspection of one archive.

\* DetectLoaderFromFilename testing for "forge" before "neoforge".
DetectLoaderFromFilenameForgeFirst(filename) ==
    IF NameContains(filename, "fabric") THEN "fabric"
    ELSE IF NameContains(filename, "forge") THEN "forge"
    ELSE IF NameContains(filename, "neoforge") THEN "neoforge"
    ELSE IF NameContains(filename, "quilt") THEN "quilt"
    ELSE "unknown"

\* ModScanner._detect_loader_from_filename
DetectLoaderFromFilename(filename) ==
    IF NameContains(filename, "fabric") THEN "fabric"
    ELSE IF NameContains(filename, "neoforge") THEN "neoforge"
    ELSE IF NameContains(filename, "forge") THEN "forge"
    ELSE IF NameContains(filename, "quilt") THEN "quilt"
    ELSE "unknown"

\* ModScanner._fallback_extraction
FallbackExtraction(a) ==
    IF MANIFEST \in a.files /\ MANIFEST \notin a.bad
    THEN LET m == ManifestData(a) IN
         Some(ModInfo(m.name, DetectLoaderFromFilename(JarName(a)), m.version,
                      JarName(a), FALSE))
    ELSE << >>

\* WithDisabled by an inspector that returns the extractor's record as it is.
WithDisabledDropped(mod_info, disabled) == mod_info

\* WithDisabled by a copy that passes on the required fields only.
WithDisabledRequiredOnly(mod_info, disabled) ==
    IF disabled
    THEN ModInfo(mod_info.name, mod_info.loader, mod_info.version, mod_info.filename, TRUE)
    ELSE mod_info

\* The copy of a record with disabled=True (scanner.py 57-69, 75-87)
WithDisabled(mod_info, disabled) ==
    IF disabled THEN [mod_info EXCEPT !.disabled = TRUE] ELSE mod_info

CanExtractCall(e) == <<"can_extract", e>>
ExtractCall(e) == <<"extract", e>>

ExtractRaised(e) == <<"extract raised", e>>

\* The calls made before the rest of the loop, put in front of its calls.
PrependCalls(made, rest) == [rest EXCEPT !.calls = made \o @]

\* The loop over self.extractors from position i on (scanner.py 51-70): the
\* record of the first extractor that accepts the archive and extracts one,
\* None when the loop ends, and the calls made on the way.  An exception
\* of an extract call ends the loop and is passed on.
RECURSIVE TryExtractors(_, _)
TryExtractors(a, i) ==
    IF i > Len(extractors) THEN [mod |-> << >>, calls |-> << >>, exc |-> << >>]
    ELSE LET e == extractors[i] IN
         IF CanExtract(e, a)
         THEN LET r == Extract(e, a) IN
              IF r.exc # << >>
              THEN [mod |-> << >>, exc |-> r.exc,
                    calls |-> <<CanExtractCall(e), ExtractCall(e), ExtractRaised(e)>>]
              ELSE IF r.val # << >>
              THEN [mod |-> r.val, exc |-> << >>,
                    calls |-> <<CanExtractCall(e), ExtractCall(e)>>]
              ELSE PrependCalls(<<CanExtractCall(e), ExtractCall(e)>>,
                                TryExtractors(a, i + 1))
         ELSE PrependCalls(<<CanExtractCall(e)>>, TryExtractors(a, i + 1))

\* The error strings of _extract_single_mod
NoMetadataError(a) == <<"No mod metadata found in ">> \o JarName(a)
BadZipError(a) == <<"Invalid or corrupted JAR file: ">> \o JarName(a)
FailedError(a) == <<"Failed to process ">> \o JarName(a) \o <<": ", "OSError">>

\* MinimalInfo with the stem taken for the whole file name.
MinimalInfoFromName(a, disabled) ==
    ModInfo(JarName(a), "unknown", <<"Unknown">>, JarName(a), disabled)

\* The record synthesized from the file name (scanner.py 92-99)
MinimalInfo(a, disabled) ==
    ModInfo(JarStem(a), "unknown", <<"Unknown">>, JarName(a), disabled)

\* str(e) of an exception, as it appears in the error string
FailedErrorOf(a, x) == <<"Failed to process ">> \o JarName(a) \o <<": ", x>>

\* The body of the with block of _extract_single_mod (scanner.py 48-101),
\* entered once the archive is open: (ModInfo, error or None), with the
\* extractor calls made, or the exception that left the block.
InspectOpened(a, disabled) ==
    LET tried == TryExtractors(a, 1) IN
    IF tried.exc # << >>
    THEN [mod |-> << >>, error |-> << >>, calls |-> tried.calls, exc |-> tried.exc]
    ELSE IF tried.mod # << >>
    THEN [mod |-> Some(WithDisabled(tried.mod[1], disabled)), error |-> << >>,
          calls |-> tried.calls, exc |-> << >>]
    ELSE LET fallback == FallbackExtraction(a) IN
         IF fallback # << >>
         THEN [mod |-> Some(WithDisabled(fallback[1], disabled)), error |-> << >>,
               calls |-> tried.calls, exc |-> << >>]
         ELSE [mod |-> Some(MinimalInfo(a, disabled)),
               error |-> Some(NoMetadataError(a)), calls |-> tried.calls, exc |-> << >>]

\* The two handlers of _extract_single_mod (scanner.py 103-110): an
\* exception that left the with block becomes (None, error).
HandleException(a, r) ==
    IF r.exc = << >> THEN r
    ELSE IF r.exc = Some(BAD_ZIP_FILE)
    THEN [mod |-> << >>, error |-> Some(BadZipError(a)), calls |-> r.calls, exc |-> << >>]
    ELSE [mod |-> << >>, error |-> Some(FailedErrorOf(a, r.exc[1])), calls |-> r.calls,
          exc |-> << >>]

\* ExtractSingleMod with the generic handler swallowing the exception.
ExtractSingleModSilent(a, disabled) ==
    IF a.container = "badzip"
    THEN [mod |-> << >>, error |-> Some(BadZipError(a)), calls |-> << >>, exc |-> << >>]
    ELSE IF a.container # "zip"
    THEN [mod |-> << >>, error |-> << >>, calls |-> << >>, exc |-> << >>]
    ELSE HandleException(a, InspectOpened(a, disabled))

\* ModScanner._extract_single_mod(jar_path, disabled): (ModInfo or None,
\* error or None), with the extractor calls it made.  A file that is no
\* archive raises zipfile.BadZipFile on opening, any other failure another
\* exception; both are turned into (None, error), and so is an exception
\* that leaves the with block.
ExtractSingleMod(a, disabled) ==
    IF a.container = "badzip"
    THEN [mod |-> << >>, error |-> Some(BadZipError(a)), calls |-> << >>, exc |-> << >>]
    ELSE IF a.container # "zip"
    THEN [mod |-> << >>, error |-> Some(FailedError(a)), calls |-> << >>, exc |-> << >>]
    ELSE HandleException(a, InspectOpened(a, disabled))

----------------------------------------------------------------------------
\* The directories scanned.

Digit == <<"1", "2", "3", "4", "5", "6">>

\* The archives a scanned directory is filled with: a Fabric mod, an archive
\* without metadata, a corrupt file.  The file at position i is named
\* mod<i>.jar.
ScanKinds(i) ==
    LET base == <<"mod", Digit[i]>> IN
    { Archive(base, FALSE, "zip", {FABRIC_FILE, MANIFEST}, {}),
      Archive(base, FALSE, "zip", {}, {}),
      Archive(base, FALSE, "badzip", {}, {}) }

\* Every archive over the six entry names, each entry usable or not, under
\* a plain and a loader-hinting file name, enabled or disabled; and the two
\* unreadable containers.
Bases == { <<"examplemod">>, <<"examplemod", "-", "NeoForge">> }

AllArchives ==
    { Archive(b, d, "zip", fs, bad) :
        b \in Bases, d \in BOOLEAN, fs \in SUBSET EntryNames, bad \in SUBSET EntryNames }
    \cup { Archive(b, d, c, {}, {}) :
             b \in Bases, d \in BOOLEAN, c \in {"badzip", "oserror"} }

WellFormedArchive(a) == a.bad \subseteq a.files

\* The orders in which a caller may hand the extractors to ModScanner.
ExtractorOrders ==
    { ALL_EXTRACTORS,
      <<LegacyForge, ForgeToml, Quilt, Fabric>>,
      <<Quilt, LegacyForge, Fabric, ForgeToml>> }

----------------------------------------------------------------------------
\* File discovery (scanner.py 184-208).

\* A file below folder_path: the archive it holds, whether it lies in a
\* subdirectory, and its name.
DirEntry(a, sub) == [a |-> a, sub |-> sub, name |-> JarName(a)]

\* A file that is no archive by its name (notes.txt).
OtherFile(base, sub) ==
    [a |-> Archive(base, FALSE, "badzip", {}, {}), sub |-> sub,
     name |-> base \o <<".txt">>]

\* fnmatch of a file name against a pattern; "*" matches any run of tokens.
RECURSIVE GlobMatch(_, _)
GlobMatch(pattern, name) ==
    IF pattern = << >> THEN name = << >>
    ELSE IF Head(pattern) = "*"
         THEN \/ GlobMatch(Tail(pattern), name)
              \/ name # << >> /\ GlobMatch(pattern, Tail(name))
         ELSE /\ name # << >>
              /\ Head(name) = Head(pattern)
              /\ GlobMatch(Tail(pattern), Tail(name))

\* folder_path.glob(pattern) when rec is false, folder_path.rglob(pattern)
\* when it is true: the positions in dir_files of the files matched.
Glob(pattern, rec) ==
    { i \in 1..Len(dir_files) :
        /\ rec \/ ~dir_files[i].sub
        /\ GlobMatch(pattern, dir_files[i].name) }

\* list(...) of a glob: the matched files in directory order.
GlobList(pattern, rec) ==
    SelectSeq([i \in 1..Len(dir_files) |-> i], LAMBDA i : i \in Glob(pattern, rec))

JAR_PATTERN == <<"*", ".jar">>
DISABLED_PATTERN == <<"*", ".jar", ".disabled">>

\* jar_files and disabled_files (scanner.py 190-198)
jar_files == GlobList(JAR_PATTERN, recursive)
disabled_files == IF include_disabled THEN GlobList(DISABLED_PATTERN, recursive) ELSE << >>

\* excluded (scanner.py 205-207): what the exclusion patterns match
Excluded ==
    UNION { Glob(exclude_patterns[k], recursive) : k \in 1..Len(exclude_patterns) }

\* Discovery that forgets to apply the exclusion patterns.
DiscoverWithoutExclusion == jar_files \o disabled_files

\* all_files after discovery and exclusion (scanner.py 202-208), as
\* positions in dir_files.
Discover ==
    SelectSeq(jar_files \o disabled_files, LAMBDA i : i \notin Excluded)

\* disabled_set (scanner.py 201): the positions of the *.jar.disabled files
disabled_set == { i \in 1..Len(all_files) : all_files[i].disabled }

----------------------------------------------------------------------------
\* scan_folder and the worker pool.

InitScan ==
    /\ all_files = << >>
    /\ pc = "start"
    /\ future_to_jar = << >>
    /\ futures = << >>
    /\ work_queue = << >>
    /\ yielded = << >>
    /\ cur = 0
    /\ completed = 0
    /\ result = ScanResult(0)
    /\ calls = << >>
    /\ appendLog = << >>
    /\ progress = << >>
    /\ raised = << >>
    /\ versions = << >>

\* scan_folder(folder_path) with every optional argument left at its
\* default, on a directory.
DefaultArguments ==
    /\ root = "dir"
    /\ recursive = FALSE
    /\ include_disabled = FALSE
    /\ exclude_patterns = << >>
    /\ progress_callback = << >>

\* The directories of up to n files drawn from ScanKinds.
ScanDirs(n) ==
    { [i \in 1..Len(fs) |-> DirEntry(fs[i], FALSE)] :
        fs \in UNION { { s \in [1..k -> UNION { ScanKinds(i) : i \in 1..k }] :
                            \A i \in 1..k : s[i] \in ScanKinds(i) } : k \in 0..n } }

\* A scanner with the default extractors over a directory of up to MaxFiles
\* candidate files.
Init ==
    /\ DefaultArguments
    /\ dir_files \in ScanDirs(MaxFiles)
    /\ workers \in 1..MaxWorkers
    /\ extractors = SortByPriority(ALL_EXTRACTORS)
    /\ tomllib = TRUE
    /\ hash_seed = 0
    /\ version_constraint = JNull
    /\ InitScan

\* A scanner, given the extractors in any order, over a directory that
\* holds one archive of any content; disabled files are included.
InitOne ==
    /\ root = "dir"
    /\ recursive = FALSE
    /\ include_disabled = TRUE
    /\ exclude_patterns = << >>
    /\ progress_callback = << >>
    /\ dir_files \in { <<DirEntry(a, FALSE)>> : a \in { x \in AllArchives : WellFormedArchive(x) } }
    /\ workers = 1
    /\ extractors \in { SortByPriority(o) : o \in ExtractorOrders }
    /\ tomllib \in BOOLEAN
    /\ hash_seed = 0
    /\ version_constraint = JNull
    /\ InitScan

\* The files a directory is filled with for the discovery claims: at
\* position i an archive mod<i>.jar, a corrupt mod<i>.jar, a disabled
\* mod<i>.jar.disabled, a mod<i>.jar in a subdirectory, or mod<i>.txt.
DirKinds(i) ==
    LET base == <<"mod", Digit[i]>> IN
    { DirEntry(Archive(base, FALSE, "zip", {FABRIC_FILE}, {}), FALSE),
      DirEntry(Archive(base, FALSE, "badzip", {}, {}), FALSE),
      DirEntry(Archive(base, TRUE, "zip", {FABRIC_FILE}, {}), FALSE),
      DirEntry(Archive(base, FALSE, "zip", {FABRIC_FILE}, {}), TRUE),
      OtherFile(base, FALSE) }

Dirs(n) ==
    UNION { { s \in [1..k -> UNION { DirKinds(i) : i \in 1..k }] :
                \A i \in 1..k : s[i] \in DirKinds(i) } : k \in 0..n }

\* The exclusion pattern lists tried: none, "mod1*", and "*.jar" with
\* "*.disabled".
ExcludeLists ==
    { << >>,
      << <<"mod", "1", "*">> >>,
      << <<"*", ".jar">>, <<"*", ".disabled">> >> }

Roots == {"missing", "file", "dir"}

\* scan_folder with any arguments and a progress callback, by a scanner
\* with one worker, on a path that may be missing or no directory.
InitDir ==
    /\ root \in Roots
    /\ dir_files \in (IF root = "dir" THEN Dirs(MaxEntries) ELSE { << >> })
    /\ recursive \in BOOLEAN
    /\ include_disabled \in BOOLEAN
    /\ exclude_patterns \in ExcludeLists
    /\ progress_callback \in { Some("returns"), Some("raises") }
    /\ workers = 1
    /\ extractors = SortByPriority(ALL_EXTRACTORS)
    /\ tomllib = TRUE
    /\ hash_seed = 0
    /\ version_constraint = JNull
    /\ InitScan

\* The scan of Init with no progress callback, with one that returns and
\* with one that may raise at any of its calls.
Callbacks == { << >>, Some("returns"), Some("raises") }

InitCallback ==
    /\ root = "dir"
    /\ recursive = FALSE
    /\ include_disabled = FALSE
    /\ exclude_patterns = << >>
    /\ progress_callback \in Callbacks
    /\ dir_files \in ScanDirs(MaxFiles)
    /\ workers \in 1..MaxWorkers
    /\ extractors = SortByPriority(ALL_EXTRACTORS)
    /\ tomllib = TRUE
    /\ hash_seed = 0
    /\ version_constraint = JNull
    /\ InitScan

\* Forge archives: one or both TOML files, each usable or not, under a
\* plain name and names mentioning Forge and NeoForge; the documents vary
\* in modLoader, loaderVersion and the dependencies, and the two files of
\* an archive differ in their displayName.
ModLoaderValues == { <<"javafml">>, <<"javafml", "-", "NeoForge">> }
LoaderVersionValues == { <<"[", "47", ",)">>, <<"[", "NeoForge", "-", "20", ",)">> }
DependencySets ==
    { << <<"minecraft">>, <<"forge">> >>,
      << <<"minecraft">>, <<"NeoForge">> >>,
      << <<"minecraft">>, <<"neoforge", "-", "api">> >> }

TomlDoc(display, ml, lv, deps) ==
    [modId |-> <<"examplemod">>, displayName |-> display, version |-> <<"1.0.0">>,
     modLoader |-> ml, loaderVersion |-> lv, dependencies |-> deps]

ForgeBases == Bases \cup { <<"examplemod", "-", "Forge">> }

ForgeArchives ==
    { Archive(b, FALSE, "zip", fs, bad) @@
        [toml |-> [f \in {NEOFORGE_TOML, FORGE_TOML} |->
                      TomlDoc(IF f = NEOFORGE_TOML THEN <<"Neo", "Mod">> ELSE <<"Forge", "Mod">>,
                              ml, lv, deps)]] :
        b \in ForgeBases, fs \in (SUBSET {NEOFORGE_TOML, FORGE_TOML}) \ {{}},
        bad \in SUBSET {NEOFORGE_TOML, FORGE_TOML},
        ml \in ModLoaderValues, lv \in LoaderVersionValues, deps \in DependencySets }

\* A scanner with the default extractors over a directory that holds one
\* Forge archive.
InitForge ==
    /\ DefaultArguments
    /\ dir_files \in { <<DirEntry(a, FALSE)>> : a \in { x \in ForgeArchives : WellFormedArchive(x) } }
    /\ workers = 1
    /\ extractors = SortByPriority(ALL_EXTRACTORS)
    /\ tomllib \in BOOLEAN
    /\ hash_seed = 0
    /\ version_constraint = JNull
    /\ InitScan

\* Archives that hold nothing but a usable manifest, under every file name
\* of up to MaxNameLen words that name loaders in either letter case.
NameTokens ==
    {"mod", "fabric", "Fabric", "neoforge", "NeoForge", "forge", "Forge", "quilt", "Quilt"}

FileBases == UNION { [1..n -> NameTokens] : n \in 1..MaxNameLen }

ManifestArchives == { Archive(b, FALSE, "zip", {MANIFEST}, {}) : b \in FileBases }

\* A scanner with the default extractors over a directory that holds one
\* such archive.
InitNames ==
    /\ DefaultArguments
    /\ dir_files \in { <<DirEntry(a, FALSE)>> : a \in ManifestArchives }
    /\ workers = 1
    /\ extractors = SortByPriority(ALL_EXTRACTORS)
    /\ tomllib = TRUE
    /\ hash_seed = 0
    /\ version_constraint = JNull
    /\ InitScan

\* Archives of up to MaxFaultyEntries entries, any of them unusable for any
\* of the four reasons, and the two unreadable containers.  A Fabric or
\* Quilt document that declares nothing still yields a record, so it is
\* not among the unusable ones.
FaultArchives ==
    { Archive(<<"examplemod">>, FALSE, "zip", fs, bad) @@ [fault |-> k] :
        fs \in { x \in SUBSET EntryNames : Cardinality(x) <= MaxFaultyEntries },
        bad \in SUBSET EntryNames, k \in FaultKinds }
    \cup { Archive(<<"examplemod">>, FALSE, c, {}, {}) : c \in {"badzip", "oserror"} }

WellFormedFault(a) ==
    /\ WellFormedArchive(a)
    /\ a.bad = {} => FaultOf(a) = "malformed"
    /\ FaultOf(a) = "empty" => a.bad \cap {FABRIC_FILE, QUILT_FILE} = {}

\* A scanner with the default extractors over a directory that holds one
\* such archive.
InitFaults ==
    /\ DefaultArguments
    /\ dir_files \in { <<DirEntry(a, FALSE)>> : a \in { x \in FaultArchives : WellFormedFault(x) } }
    /\ workers = 1
    /\ extractors = SortByPriority(ALL_EXTRACTORS)
    /\ tomllib \in BOOLEAN
    /\ hash_seed = 0
    /\ version_constraint = JNull
    /\ InitScan

\* The constraints handed to the parser directly.
RECURSIVE Dotted(_)
Dotted(components) ==
    IF Len(components) = 1 THEN components[1]
    ELSE components[1] \o <<".">> \o Dotted(Tail(components))

V1_19 == Dotted(<< <<"1">>, <<"1", "9">> >>)
V1_20 == Dotted(<< <<"1">>, <<"2", "0">> >>)
V1_21 == Dotted(<< <<"1">>, <<"2", "1">> >>)
V1_20_1 == Dotted(<< <<"1">>, <<"2", "0">>, <<"1">> >>)

\* Numerals of up to MaxParts dotted components.
Numerals ==
    LET components == { <<"1">>, <<"9">>, <<"2", "0">>, <<"2", "1">> }
    IN  { Dotted(cs) : cs \in UNION { [1..n -> components] : n \in 1..MaxParts } }

\* A term is a numeral with something in front of it and something behind
\* it; a range is two terms side by side, as in a comparator range or a
\* bracket range; and every string of up to MaxLen characters over a small
\* alphabet.
ConstraintStrings ==
    LET prefixes == { << >>, <<">", "=">>, <<"<">>, <<"~">>, <<"^">>, <<"[">>, <<"(">>, <<",">> }
        suffixes == { << >>, <<".", "x">>, <<".", "*">>, <<",">>, <<")">>, <<"]">> }
        terms == { p \o n \o s : p \in prefixes, n \in Numerals, s \in suffixes }
        range_terms == { p \o n \o s : p \in { << >>, <<">", "=">>, <<"<">>, <<"[">> },
                                        n \in { V1_20, V1_21, V1_20_1 },
                                        s \in { << >>, <<".", "x">>, <<")">> } }
        ranges == { t1 \o sep \o t2 : t1 \in range_terms, t2 \in range_terms,
                                      sep \in { << >>, <<" ">>, <<",">> } }
        alphabet == {"1", ".", "x", ">", " ", ","}
        short_strings == UNION { [1..n -> alphabet] : n \in 0..MaxLen }
    IN  terms \cup ranges \cup short_strings

\* Lists of up to MaxItems constraints: strings, null, a nested list.
ConstraintLists ==
    LET strings == { << >>, V1_19, V1_20, V1_20_1, <<">", "=">> \o V1_20 \o <<" ", "<">> \o V1_21 }
        values == { JStr(s) : s \in strings } \cup { JNull, JList(<<JStr(V1_21), JStr(V1_20)>>) }
    IN  { JList(items) : items \in UNION { [1..n -> values] : n \in 0..MaxItems } }

\* Every list a caller may hand to ModScanner: some or all of the
\* extractors, each once, in any order; the empty list stands for no list.
ExtractorLists ==
    UNION { { l \in [1..n -> Range(ALL_EXTRACTORS)] :
                \A j \in 1..n : \A k \in 1..n : l[j] = l[k] => j = k } :
            n \in 0..Len(ALL_EXTRACTORS) }

\* ModScanner(extractors=given) over a directory that holds one readable
\* archive with any of the six entries.
InitOrders ==
    /\ DefaultArguments
    /\ dir_files \in { <<DirEntry(Archive(<<"examplemod">>, FALSE, "zip", fs, {}), FALSE)>> :
                          fs \in SUBSET EntryNames }
    /\ workers = 1
    /\ extractors \in { SortByPriority(IF given = << >> THEN ALL_EXTRACTORS ELSE given) :
                            given \in ExtractorLists }
    /\ tomllib = TRUE
    /\ hash_seed = 0
    /\ version_constraint = JNull
    /\ InitScan

\* A direct call of _parse_mc_versions, on any of these constraints, in a
\* process with any hash seed (which only a list argument can depend on).
InitParse ==
    /\ DefaultArguments
    /\ dir_files = << >>
    /\ workers = 1
    /\ extractors = SortByPriority(ALL_EXTRACTORS)
    /\ tomllib = TRUE
    /\ version_constraint \in
           { JStr(s) : s \in ConstraintStrings } \cup ConstraintLists \cup { JNull, JNumber }
    /\ hash_seed \in (IF version_constraint.type = "list" THEN 0..MaxSeed ELSE {0})
    /\ InitScan

\* Archives that hold one JSON metadata file whose document declares, or
\* does not declare, each of its keys: id, name and version are absent,
\* empty, null or a text; the dependencies are a mapping (Fabric) or a
\* list of objects and bare strings (Quilt), with and without an entry
\* for minecraft.
RangeConstraint == JStr(<<">", "=">> \o V1_20 \o <<" ", "<">> \o V1_21)

JsonDocs(dependsValues) ==
    LET Absent == <<"Absent">>
        TextValues(text) == { Absent, << >>, None, text }
        Field(key, value) == IF value = Absent THEN << >> ELSE key :> value
        creditsValues ==
            { << >>,
              ("authors" :> << <<"Ann">>, <<" ">>, <<"Bob">> >>)
                  @@ ("description" :> <<" ", "A", "mod", " ">>) }
    IN  { Field("id", id) @@ Field("name", name) @@ Field("version", version)
            @@ (IF depends = << >> THEN << >> ELSE "depends" :> depends) @@ credits :
            id \in TextValues(<<"examplemod">>), name \in TextValues(<<"Example", "Mod">>),
            version \in TextValues(<<"1.0.0">>), depends \in dependsValues,
            credits \in creditsValues }

JsonArchives ==
    LET FabricDepends ==
            { << >>,
              <<Entry("key", <<"fabricloader">>, JStr(<<"*">>))>>,
              <<Entry("key", MINECRAFT, RangeConstraint),
                Entry("key", <<"fabricloader">>, JStr(<<"*">>))>>,
              <<Entry("key", MINECRAFT, JList(<<JStr(V1_20_1), JStr(V1_19)>>))>> }
        QuiltDependsLists ==
            { << >>,
              <<Entry("string", MINECRAFT, JNull)>>,
              <<Entry("object", MINECRAFT, RangeConstraint), Entry("object", <<"qsl">>, JNull),
                Entry("string", <<"quilt_loader">>, JNull)>>,
              <<Entry("object", <<"qsl">>, JNull), Entry("string", MINECRAFT, JNull),
                Entry("object", None, JNull)>>,
              <<Entry("object", MINECRAFT, JStr(V1_20 \o <<".", "x">>)),
                Entry("string", MINECRAFT, JNull)>> }
    IN  { Archive(<<"examplemod">>, d, "zip", {FABRIC_FILE}, {}) @@ [json |-> doc] :
            d \in BOOLEAN, doc \in JsonDocs(FabricDepends) }
        \cup { Archive(<<"examplemod">>, d, "zip", {QUILT_FILE}, {}) @@ [json |-> doc] :
                 d \in BOOLEAN, doc \in JsonDocs(QuiltDependsLists) }

\* Archives without a metadata file: with a manifest, with nothing, and a
\* file that is no archive.
PlainArchives ==
    { Archive(<<"examplemod">>, d, "zip", fs, {}) : d \in BOOLEAN, fs \in { {MANIFEST}, {} } }
    \cup { Archive(<<"examplemod">>, d, "badzip", {}, {}) : d \in BOOLEAN }

\* A scanner with the default extractors over a directory that holds one
\* such archive, enabled or disabled, in a process with any hash seed.
InitJson ==
    /\ root = "dir"
    /\ recursive = FALSE
    /\ include_disabled = TRUE
    /\ exclude_patterns = << >>
    /\ progress_callback = << >>
    /\ dir_files \in { <<DirEntry(a, FALSE)>> : a \in JsonArchives \cup PlainArchives }
    /\ workers = 1
    /\ extractors = SortByPriority(ALL_EXTRACTORS)
    /\ tomllib = TRUE
    /\ hash_seed \in 0..MaxSeed
    /\ version_constraint = JNull
    /\ InitScan

Running == { i \in 1..Len(futures) : futures[i].state = "RUNNING" }
Finished == { i \in 1..Len(futures) : futures[i].state = "FINISHED" }
Yielded == { yielded[k] : k \in 1..Len(yielded) }

NOT_FOUND == "FileNotFoundError"
INVALID_INPUT == "ValueError"
CALLBACK_ERROR == "CallbackError"

\* ScanFolder by a scanner that counts the files before the exclusions.
ScanFolderCountsBeforeExclusion ==
    /\ pc = "start"
    /\ root = "dir"
    /\ LET found == [k \in 1..Len(Discover) |-> dir_files[Discover[k]].a] IN
       /\ all_files' = found
       /\ result' = ScanResult(Len(jar_files \o disabled_files))
       /\ pc' = IF found = << >> THEN "done" ELSE "submit"
    /\ UNCHANGED <<inputs, versions, future_to_jar, futures, work_queue, yielded, cur,
                   completed, calls, appendLog, progress, raised>>

\* ScanFolder by a scanner that does not check that folder_path is a
\* directory: globbing a plain file finds nothing.
ScanFolderSkipsDirCheck ==
    /\ pc = "start"
    /\ IF root = "missing"
       THEN /\ raised' = Some(NOT_FOUND)
            /\ pc' = "raised"
            /\ UNCHANGED <<all_files, result>>
       ELSE LET found == [k \in 1..Len(Discover) |-> dir_files[Discover[k]].a] IN
            /\ all_files' = found
            /\ raised' = raised
            /\ IF found = << >>
               THEN /\ result' = ScanResult(0)
                    /\ pc' = "done"
               ELSE /\ result' = ScanResult(Len(found))
                    /\ pc' = "submit"
    /\ UNCHANGED <<inputs, versions, future_to_jar, futures, work_queue, yielded, cur,
                   completed, calls, appendLog, progress>>

\* scan_folder up to the creation of the aggregate (scanner.py 184-220):
\* the two checks of folder_path, discovery and exclusion; without
\* candidate files it returns ScanResult(total_files=0) at once.
ScanFolder ==
    /\ pc = "start"
    /\ IF root = "missing"
       THEN /\ raised' = Some(NOT_FOUND)
            /\ pc' = "raised"
            /\ UNCHANGED <<all_files, result>>
       ELSE IF root # "dir"
       THEN /\ raised' = Some(INVALID_INPUT)
            /\ pc' = "raised"
            /\ UNCHANGED <<all_files, result>>
       ELSE LET found == [k \in 1..Len(Discover) |-> dir_files[Discover[k]].a] IN
            /\ all_files' = found
            /\ raised' = raised
            /\ IF found = << >>
               THEN /\ result' = ScanResult(0)
                    /\ pc' = "done"
               ELSE /\ result' = ScanResult(Len(found))
                    /\ pc' = "submit"
    /\ UNCHANGED <<inputs, versions, future_to_jar, futures, work_queue, yielded, cur,
                   completed, calls, appendLog, progress>>

\* One executor.submit of the dict comprehension (scanner.py 222-229): the
\* next file of all_files, with its disabled flag, is queued as a new future.
Submit ==
    /\ pc = "submit"
    /\ LET i == Len(future_to_jar) + 1 IN
       /\ i <= Len(all_files)
       /\ future_to_jar' = Append(future_to_jar, i)
       /\ futures' = Append(futures, [state |-> "PENDING", jar |-> i,
                                      disabled |-> i \in disabled_set,
                                      result |-> << >>, exception |-> << >>])
       /\ work_queue' = Append(work_queue, Len(futures) + 1)
       /\ calls' = Append(calls, << >>)
       /\ pc' = IF i = Len(all_files) THEN "collect" ELSE "submit"
    /\ UNCHANGED <<inputs, versions, all_files, yielded, cur, completed, result,
                   appendLog, progress, raised>>

\* StartTask by a pool that starts a thread for every queued task.
StartTaskUnbounded ==
    /\ work_queue # << >>
    /\ futures' = [futures EXCEPT ![Head(work_queue)].state = "RUNNING"]
    /\ work_queue' = Tail(work_queue)
    /\ UNCHANGED <<inputs, versions, all_files, pc, future_to_jar, yielded, cur,
                   completed, result, calls, appendLog, progress, raised>>

\* A pool thread takes the oldest queued task; the pool has at most
\* max_workers = self.workers threads, each running one task at a time.
StartTask ==
    /\ work_queue # << >>
    /\ Cardinality(Running) < workers
    /\ futures' = [futures EXCEPT ![Head(work_queue)].state = "RUNNING"]
    /\ work_queue' = Tail(work_queue)
    /\ UNCHANGED <<inputs, versions, all_files, pc, future_to_jar, yielded, cur,
                   completed, result, calls, appendLog, progress, raised>>

\* RunTask by a task that appends its outcome to the aggregate itself.
RunTaskAppends(f) ==
    /\ f \in Running
    /\ LET out == ExtractSingleMod(all_files[futures[f].jar], futures[f].disabled) IN
       /\ futures' = [futures EXCEPT ![f].state = "FINISHED",
                                     ![f].result = Some([mod |-> << >>, error |-> << >>])]
       /\ calls' = [calls EXCEPT ![f] = out.calls]
       /\ result' = [result EXCEPT !.mods = result.mods \o out.mod,
                                   !.errors = result.errors \o out.error]
       /\ appendLog' = Append(appendLog, [by |-> "worker", future |-> f,
                                          mod |-> out.mod, error |-> out.error])
    /\ UNCHANGED <<inputs, versions, all_files, pc, future_to_jar, work_queue, yielded,
                   cur, completed, progress, raised>>

\* RunTask by a task that never returns from a file it cannot open.
RunTaskHangsOnCorrupt(f) ==
    /\ f \in Running
    /\ all_files[futures[f].jar].container = "zip"
    /\ LET out == ExtractSingleMod(all_files[futures[f].jar], futures[f].disabled) IN
       /\ futures' = [futures EXCEPT ![f].state = "FINISHED",
                                     ![f].result = Some([mod |-> out.mod, error |-> out.error])]
       /\ calls' = [calls EXCEPT ![f] = out.calls]
    /\ UNCHANGED <<inputs, versions, all_files, pc, future_to_jar, work_queue, yielded,
                   cur, completed, result, appendLog, progress, raised>>

\* A pool thread runs _extract_single_mod(jar_path, disabled) to its end
\* and sets the future's result, or its exception: the task returns its
\* outcome as a value.
RunTask(f) ==
    /\ f \in Running
    /\ \E out \in { ExtractSingleMod(all_files[futures[f].jar], futures[f].disabled) } :
       /\ futures' = [futures EXCEPT
                         ![f].state = "FINISHED",
                         ![f].result = IF out.exc = << >>
                                       THEN Some([mod |-> out.mod, error |-> out.error])
                                       ELSE << >>,
                         ![f].exception = out.exc]
       /\ calls' = [calls EXCEPT ![f] = out.calls]
    /\ UNCHANGED <<inputs, versions, all_files, pc, future_to_jar, work_queue, yielded,
                   cur, completed, result, appendLog, progress, raised>>

\* What a call of the progress callback can do: return, or raise.
CallbackOutcomes(callback) ==
    IF callback = "raises" THEN {"return", "raise"} ELSE {"return"}

\* CollectNext by a loop that reports to the callback before it counts
\* the task.
CollectNextReportsBeforeCounting ==
    /\ pc = "collect"
    /\ cur = 0
    /\ \E f \in Finished \ Yielded :
          /\ cur' = f
          /\ yielded' = Append(yielded, f)
          /\ IF progress_callback = << >>
             THEN UNCHANGED <<pc, progress, raised>>
             ELSE /\ progress' = Append(progress,
                                   [completed |-> completed,
                                    total |-> Len(all_files),
                                    filename |-> JarName(all_files[future_to_jar[f]])])
                  /\ UNCHANGED <<pc, raised>>
    /\ completed' = completed + 1
    /\ UNCHANGED <<inputs, versions, all_files, future_to_jar, futures, work_queue,
                   result, calls, appendLog>>

\* CollectNext by a loop that catches an exception of the callback and
\* goes on to the next task without collecting this one.
CollectNextSkipsOnCallbackError ==
    /\ pc = "collect"
    /\ cur = 0
    /\ \E f \in Finished \ Yielded :
          /\ yielded' = Append(yielded, f)
          /\ IF progress_callback = << >>
             THEN cur' = f /\ UNCHANGED progress
             ELSE /\ progress' = Append(progress,
                                   [completed |-> completed + 1,
                                    total |-> Len(all_files),
                                    filename |-> JarName(all_files[future_to_jar[f]])])
                  /\ \E outcome \in CallbackOutcomes(progress_callback[1]) :
                        cur' = IF outcome = "raise" THEN 0 ELSE f
    /\ completed' = completed + 1
    /\ UNCHANGED <<inputs, versions, all_files, pc, future_to_jar, futures, work_queue,
                   result, calls, appendLog, raised>>

\* as_completed hands out a finished future it has not handed out yet, and
\* the loop body counts it and reports it to the progress callback
\* (scanner.py 231-236).  An exception of the callback leaves scan_folder.
CollectNext ==
    /\ pc = "collect"
    /\ cur = 0
    /\ \E f \in Finished \ Yielded :
          /\ cur' = f
          /\ yielded' = Append(yielded, f)
          /\ IF progress_callback = << >>
             THEN UNCHANGED <<pc, progress, raised>>
             ELSE /\ progress' = Append(progress,
                                   [completed |-> completed + 1,
                                    total |-> Len(all_files),
                                    filename |-> JarName(all_files[future_to_jar[f]])])
                  /\ \E outcome \in CallbackOutcomes(progress_callback[1]) :
                        IF outcome = "raise"
                        THEN pc' = "raised" /\ raised' = Some(CALLBACK_ERROR)
                        ELSE UNCHANGED <<pc, raised>>
    /\ completed' = completed + 1
    /\ UNCHANGED <<inputs, versions, all_files, future_to_jar, futures, work_queue,
                   result, calls, appendLog>>

\* CollectResult by a loop that a task without a record ends.
CollectResultAbortsOnFailure ==
    /\ pc = "collect"
    /\ cur # 0
    /\ LET out == futures[cur].result[1] IN
       /\ result' = [result EXCEPT !.mods = result.mods \o out.mod,
                                   !.errors = result.errors \o out.error]
       /\ appendLog' = Append(appendLog, [by |-> MainThread, future |-> cur,
                                          mod |-> out.mod, error |-> out.error])
       /\ pc' = IF out.mod = << >> THEN "done" ELSE pc
    /\ cur' = 0
    /\ UNCHANGED <<inputs, versions, all_files, future_to_jar, futures, work_queue,
                   yielded, completed, calls, progress, raised>>

UnexpectedError(a, x) == <<"Unexpected error processing ">> \o JarName(a) \o <<": ", x>>

\* What future.result() gives the loop body (scanner.py 238-247): the
\* task's pair, or for a task that raised, no record and the error string
\* of the handler.
Collected(f) ==
    IF futures[f].exception = << >> THEN futures[f].result[1]
    ELSE [mod |-> << >>,
          error |-> Some(UnexpectedError(all_files[future_to_jar[f]], futures[f].exception[1]))]

\* CollectResult putting the new record and error in front of the others.
CollectResultPrepends ==
    /\ pc = "collect"
    /\ cur # 0
    /\ LET out == Collected(cur) IN
       /\ result' = [result EXCEPT !.mods = out.mod \o result.mods,
                                   !.errors = out.error \o result.errors]
       /\ appendLog' = Append(appendLog, [by |-> MainThread, future |-> cur,
                                          mod |-> out.mod, error |-> out.error])
    /\ cur' = 0
    /\ UNCHANGED <<inputs, versions, all_files, pc, future_to_jar, futures, work_queue,
                   yielded, completed, calls, progress, raised>>

\* CollectResult by a loop body that keeps the records only.
CollectResultDropsErrors ==
    /\ pc = "collect"
    /\ cur # 0
    /\ LET out == Collected(cur) IN
       /\ result' = [result EXCEPT !.mods = result.mods \o out.mod]
       /\ appendLog' = Append(appendLog, [by |-> MainThread, future |-> cur,
                                          mod |-> out.mod, error |-> << >>])
    /\ cur' = 0
    /\ UNCHANGED <<inputs, versions, all_files, pc, future_to_jar, futures, work_queue,
                   yielded, completed, calls, progress, raised>>

\* The rest of the loop body (scanner.py 238-247): future.result() is
\* unpacked and appended to the aggregate by the calling thread.
CollectResult ==
    /\ pc = "collect"
    /\ cur # 0
    /\ LET out == Collected(cur) IN
       /\ result' = [result EXCEPT !.mods = result.mods \o out.mod,
                                   !.errors = result.errors \o out.error]
       /\ appendLog' = Append(appendLog, [by |-> MainThread, future |-> cur,
                                          mod |-> out.mod, error |-> out.error])
    /\ cur' = 0
    /\ UNCHANGED <<inputs, versions, all_files, pc, future_to_jar, futures, work_queue,
                   yielded, completed, calls, progress, raised>>

\* Return by a loop that ends as soon as no finished future is waiting.
ReturnWithoutWaiting ==
    /\ pc = "collect"
    /\ cur = 0
    /\ Finished \ Yielded = {}
    /\ pc' = "done"
    /\ UNCHANGED <<inputs, versions, all_files, future_to_jar, futures, work_queue,
                   yielded, cur, completed, result, calls, appendLog,
                   progress, raised>>

\* as_completed is exhausted, the executor is shut down and scan_folder
\* returns the aggregate (scanner.py 248-254).
Return ==
    /\ pc = "collect"
    /\ cur = 0
    /\ Len(yielded) = Len(future_to_jar)
    /\ pc' = "done"
    /\ UNCHANGED <<inputs, versions, all_files, future_to_jar, futures, work_queue,
                   yielded, cur, completed, result, calls, appendLog,
                   progress, raised>>

\* A direct call of _parse_mc_versions returns.
ParseCall ==
    /\ versions = << >>
    /\ versions' = Some(ParseMcVersions(version_constraint))
    /\ UNCHANGED <<inputs, all_files, pc, future_to_jar, futures, work_queue,
                   yielded, cur, completed, result, calls, appendLog,
                   progress, raised>>

\* The steps of the thread that called scan_folder, and those of the pool.
MainStep == ScanFolder \/ Submit \/ CollectNext \/ CollectResult \/ Return
PoolStep == StartTask \/ \E f \in 1..Len(futures) : RunTask(f)

Next == MainStep \/ PoolStep

Spec == Init /\ [][Next]_vars

SpecOne == InitOne /\ [][Next]_vars

SpecDir == InitDir /\ [][Next]_vars

SpecCallback == InitCallback /\ [][Next]_vars

SpecForge == InitForge /\ [][Next]_vars

SpecNames == InitNames /\ [][Next]_vars

SpecFaults == InitFaults /\ [][Next]_vars

SpecJson == InitJson /\ [][Next]_vars

SpecOrders == InitOrders /\ [][Next]_vars

SpecParse == InitParse /\ [][ParseCall]_vars

\* Every thread that can take a step eventually does.
FairSpec == Init /\ [][Next]_vars /\ WF_vars(MainStep) /\ WF_vars(PoolStep)

----------------------------------------------------------------------------
\* Properties.

\* The archive a future inspects, and what its task returned.
JarOf(f) == all_files[futures[f].jar]
OutcomeOf(f) == futures[f].result[1]

\* The position in self.extractors of the first extractor whose can_extract
\* accepts the archive; 0 when none does.
FirstApplicable(a) ==
    LET S == { k \in 1..Len(extractors) : CanExtract(extractors[k], a) } IN
    IF S = {} THEN 0 ELSE CHOOSE k \in S : \A j \in S : k <= j

CallsOf(f) == { calls[f][k] : k \in 1..Len(calls[f]) }

\* The JSON metadata file a JSON extractor reads; none for the TOML extractor.
JsonFileOf(e) ==
    CASE e = Fabric -> Some(FABRIC_FILE)
      [] e = Quilt -> Some(QUILT_FILE)
      [] e = LegacyForge -> Some(MCMOD_INFO)
      [] OTHER -> << >>

\* The metadata file of the extractor chosen for the archive is malformed JSON.
ChosenJsonMalformed(a) ==
    /\ a.container = "zip"
    /\ FirstApplicable(a) # 0
    /\ LET file == JsonFileOf(extractors[FirstApplicable(a)]) IN
       file # << >> /\ file[1] \in a.bad

\* m is the record synthesized from the file name of a alone.
IsMinimalRecord(m, a) ==
    /\ m.name = JarStem(a)
    /\ m.loader = "unknown"
    /\ m.version = <<"Unknown">>
    /\ m.filename = JarName(a)

\* C1: for every inspected archive some extractor accepts, the first
\* accepting extractor (in ascending priority) is invoked and its result is
\* final: its extract is the last extractor method called for the archive,
\* so nothing of lower priority is consulted after it, even when it failed.
C1_ChosenExtractorIsFinal ==
    \A f \in Finished :
        LET a == JarOf(f)
            k == FirstApplicable(a)
        IN  (a.container = "zip" /\ k # 0) =>
                /\ ExtractCall(extractors[k]) \in CallsOf(f)
                /\ calls[f][Len(calls[f])] = ExtractCall(extractors[k])

\* C2: for every inspected archive that holds both fabric.mod.json and
\* quilt.mod.json, whatever their contents, FabricExtractor is the one
\* chosen: QuiltExtractor.extract is never called and no record of the
\* archive has loader 'quilt'.
C2_FabricChosenOverQuilt ==
    \A f \in Finished :
        LET a == JarOf(f) IN
        (a.container = "zip" /\ {FABRIC_FILE, QUILT_FILE} \subseteq a.files) =>
            /\ ExtractCall(Fabric) \in CallsOf(f)
            /\ ExtractCall(Quilt) \notin CallsOf(f)
            /\ \A k \in 1..Len(OutcomeOf(f).mod) : OutcomeOf(f).mod[k].loader # "quilt"

\* C4: the scan of one archive whose metadata file is malformed JSON returns
\* exactly one record, the minimal record made from the file name, and
\* exactly one error string.
C4_MalformedJsonGivesMinimalAndError ==
    (pc = "done" /\ Len(all_files) = 1 /\ ChosenJsonMalformed(all_files[1])) =>
        /\ Len(result.mods) = 1
        /\ IsMinimalRecord(result.mods[1], all_files[1])
        /\ Len(result.errors) = 1

\* A readable archive with none of the recognized metadata files and no
\* readable manifest.
NoMetadataNoManifest(a) ==
    /\ a.container = "zip"
    /\ a.files \cap {FABRIC_FILE, QUILT_FILE, NEOFORGE_TOML, FORGE_TOML, MCMOD_INFO} = {}
    /\ MANIFEST \in a.files => MANIFEST \in a.bad

\* C5: the scan of one readable archive that holds no recognized metadata
\* file and no readable manifest returns exactly one record, with loader
\* 'unknown', version 'Unknown', the file's stem as name and the file's
\* name as filename, and exactly one error string, which contains the
\* file name.
C5_NoMetadataGivesMinimalAndError ==
    (pc = "done" /\ Len(all_files) = 1 /\ NoMetadataNoManifest(all_files[1])) =>
        /\ Len(result.mods) = 1
        /\ result.mods[1].loader = "unknown"
        /\ result.mods[1].version = <<"Unknown">>
        /\ result.mods[1].name = JarStem(all_files[1])
        /\ result.mods[1].filename = JarName(all_files[1])
        /\ Len(result.errors) = 1
        /\ ContainsSeq(result.errors[1], JarName(all_files[1]))

\* C5 witness: such a scan has returned, for a disabled archive whose
\* manifest is unusable.
C5_Witness ==
    /\ pc = "done"
    /\ Len(all_files) = 1
    /\ NoMetadataNoManifest(all_files[1])
    /\ MANIFEST \in all_files[1].files
    /\ all_files[1].disabled
    /\ Len(result.errors) = 1

\* C6: every finished inspection ended in exactly one of (a) a record and
\* no error, (b) the minimal record made from the file name and one error,
\* (c) no record and one error; never neither, and a record that comes with
\* an error is the minimal one.
C6_ThreeOutcomes ==
    \A f \in Finished :
        LET o == OutcomeOf(f)
            a == JarOf(f)
        IN  \/ Len(o.mod) = 1 /\ o.error = << >>
            \/ Len(o.mod) = 1 /\ IsMinimalRecord(o.mod[1], a) /\ Len(o.error) = 1
            \/ o.mod = << >> /\ Len(o.error) = 1

\* C6 witness: an inspection whose opening raised something other than
\* BadZipFile has finished without a record.
C6_Witness ==
    \E f \in Finished : JarOf(f).container = "oserror" /\ OutcomeOf(f).mod = << >>

\* The concatenation of a sequence of sequences.
RECURSIVE ConcatAll(_)
ConcatAll(ss) == IF ss = << >> THEN << >> ELSE Head(ss) \o ConcatAll(Tail(ss))

\* The multiset of the elements of a sequence.
BagOf(s) ==
    [x \in { s[k] : k \in 1..Len(s) } |-> Cardinality({ k \in 1..Len(s) : s[k] = x })]

\* C3: when the scan has returned, each file that is no readable archive has
\* contributed no record and exactly one error string, which contains its
\* file name, and every other file was inspected, collected and has
\* contributed its own record: the corrupt file did not end the scan.
C3_CorruptFileIsolated ==
    pc = "done" =>
        \A i \in 1..Len(all_files) :
            LET a == all_files[i] IN
            IF a.container # "zip"
            THEN /\ \A k \in 1..Len(result.mods) : result.mods[k].filename # JarName(a)
                 /\ Cardinality({ k \in 1..Len(result.errors) :
                                    ContainsSeq(result.errors[k], JarName(a)) }) = 1
            ELSE /\ \E f \in Finished \cap Yielded : futures[f].jar = i
                 /\ Cardinality({ k \in 1..Len(result.mods) :
                                    result.mods[k].filename = JarName(a) }) = 1

\* C3 witness: a scan has returned whose first file was corrupt and which
\* also held readable archives.
C3_Witness ==
    /\ pc = "done"
    /\ Len(all_files) >= 3
    /\ all_files[1].container = "badzip"
    /\ \E i \in 2..Len(all_files) : all_files[i].container = "zip"
    /\ Len(result.mods) = Len(all_files) - 1

\* C7: every append to the aggregate is made by the thread that iterates
\* the completed tasks, and the aggregate holds exactly what that thread
\* appended: no task writes it.
C7_OnlyCollectorAppends ==
    /\ \A k \in 1..Len(appendLog) : appendLog[k].by = MainThread
    /\ result.mods = ConcatAll([k \in 1..Len(appendLog) |-> appendLog[k].mod])
    /\ result.errors = ConcatAll([k \in 1..Len(appendLog) |-> appendLog[k].error])

\* C7 witness: the collecting thread has appended, and is in its loop body
\* again while a task is still running.
C7_Witness ==
    /\ Len(appendLog) >= 1
    /\ cur # 0
    /\ Running # {}

\* C8: at most `workers` tasks are executing at any moment, no file is
\* submitted twice, and once submission is over there is exactly one task
\* per candidate file.
C8_OneTaskPerFileBoundedPool ==
    /\ Cardinality(Running) <= workers
    /\ Len(futures) = Len(future_to_jar)
    /\ \A k \in 1..Len(future_to_jar) : futures[k].jar = future_to_jar[k]
    /\ \A j, k \in 1..Len(future_to_jar) :
          j # k => future_to_jar[j] # future_to_jar[k]
    /\ pc \in {"collect", "done"} =>
          /\ Len(future_to_jar) = Len(all_files)
          /\ { future_to_jar[k] : k \in 1..Len(future_to_jar) } = 1..Len(all_files)

\* C8 witness: the pool is saturated: `workers` (more than one) tasks are
\* executing and another is waiting in the queue.
C8_Witness ==
    /\ workers > 1
    /\ Cardinality(Running) = workers
    /\ work_queue # << >>

\* C9: under fair scheduling the scan eventually returns, and by then every
\* submitted task has finished and has been collected exactly once.
C9_ScanTerminates ==
    <>( /\ pc = "done"
        /\ Len(futures) = Len(all_files)
        /\ \A f \in 1..Len(futures) :
              /\ futures[f].state = "FINISHED"
              /\ Cardinality({ k \in 1..Len(yielded) : yielded[k] = f }) = 1
              /\ Cardinality({ k \in 1..Len(appendLog) : appendLog[k].future = f }) = 1 )

\* C9 witness: a scan over a valid, a corrupt and a metadata-less archive
\* has returned.
C9_Witness ==
    /\ pc = "done"
    /\ Len(all_files) = 3
    /\ all_files[1].container = "badzip"
    /\ all_files[2].container = "zip" /\ all_files[2].files = {}
    /\ all_files[3].container = "zip" /\ FABRIC_FILE \in all_files[3].files \ all_files[3].bad
    /\ Len(yielded) = 3

\* What the files of the directory yield, in the order of all_files.
ExpectedMods ==
    ConcatAll([i \in 1..Len(all_files) |->
                  ExtractSingleMod(all_files[i], i \in disabled_set).mod])
ExpectedErrors ==
    ConcatAll([i \in 1..Len(all_files) |->
                  ExtractSingleMod(all_files[i], i \in disabled_set).error])

\* C10: whatever the interleaving and the completion order, the returned
\* records and error strings are, as multisets, those the files of the
\* directory yield: runs differ in order only.
C10_ResultIndependentOfSchedule ==
    pc = "done" =>
        /\ BagOf(result.mods) = BagOf(ExpectedMods)
        /\ BagOf(result.errors) = BagOf(ExpectedErrors)

\* C10 witness: a scan has returned whose tasks were collected in another
\* order than they were submitted.
C10_Witness ==
    /\ pc = "done"
    /\ Len(yielded) >= 2
    /\ yielded[1] > yielded[2]
    /\ result.mods # ExpectedMods

----------------------------------------------------------------------------
\* Discovery and setup errors.

\* The name of a directory entry ends in .jar / in .jar.disabled.
IsJarName(e) == e.name[Len(e.name)] = ".jar"
IsDisabledName(e) ==
    /\ Len(e.name) >= 2
    /\ e.name[Len(e.name) - 1] = ".jar"
    /\ e.name[Len(e.name)] = ".disabled"

\* The files of the directory that are candidates: archives by their name
\* (disabled ones only on request), at the depth scanned, matched by no
\* exclusion pattern.
ExpectedCandidates ==
    { i \in 1..Len(dir_files) :
        /\ IsJarName(dir_files[i]) \/ (include_disabled /\ IsDisabledName(dir_files[i]))
        /\ recursive \/ ~dir_files[i].sub
        /\ \A k \in 1..Len(exclude_patterns) :
              ~GlobMatch(exclude_patterns[k], dir_files[i].name) }

\* C11: from its creation on, through every task outcome and up to the
\* return, total_files of the aggregate is the number of candidate files
\* left after discovery and exclusion; corrupt archives are counted.
C11_TotalFilesCountsCandidates ==
    (root = "dir" /\ pc # "start") =>
        /\ result.total_files = Cardinality(ExpectedCandidates)
        /\ result.total_files = Len(all_files)
        /\ Len(futures) <= result.total_files

\* A finished scan in which an exclusion pattern removed a file and a
\* corrupt archive, which gave no record, is counted.
C11_Witness ==
    /\ pc = "done"
    /\ Excluded \cap (Glob(JAR_PATTERN, recursive) \cup Glob(DISABLED_PATTERN, recursive)) # {}
    /\ \E i \in 1..Len(all_files) : all_files[i].container = "badzip"
    /\ result.total_files >= 2
    /\ Len(result.mods) < result.total_files

\* C12: on a directory without candidate files scan_folder returns, without
\* raising, total_files = 0 with no mods and no errors; no task is
\* submitted and the progress callback is never called.
C12_NoCandidatesReturnsEmpty ==
    (root = "dir" /\ ExpectedCandidates = {} /\ pc # "start") =>
        /\ pc = "done"
        /\ raised = << >>
        /\ result = ScanResult(0)
        /\ futures = << >> /\ work_queue = << >> /\ future_to_jar = << >>
        /\ progress = << >>

\* A scan that returned from a directory whose archives were all excluded.
C12_Witness ==
    /\ pc = "done"
    /\ ExpectedCandidates = {}
    /\ \E i \in 1..Len(dir_files) : IsJarName(dir_files[i]) /\ ~dir_files[i].sub
    /\ progress_callback # << >>

\* Nothing of the scan proper has happened.
NothingScanned ==
    /\ all_files = << >>
    /\ futures = << >> /\ work_queue = << >> /\ future_to_jar = << >>
    /\ progress = << >>
    /\ result = ScanResult(0)

\* C13: on a missing path scan_folder raises the not-found error, on a path
\* that is no directory the invalid-input error, in both cases before
\* discovery, submission and progress reports; scan_folder raises these
\* two errors in no other case, and raises no other error of its own (the
\* only other exception that leaves it is one its caller's callback raised).
C13_SetupErrors ==
    /\ (root = "missing" /\ pc # "start") =>
          pc = "raised" /\ raised = Some(NOT_FOUND) /\ NothingScanned
    /\ (root = "file" /\ pc # "start") =>
          pc = "raised" /\ raised = Some(INVALID_INPUT) /\ NothingScanned
    /\ (root = "dir" /\ raised # << >>) =>
          /\ raised = Some(CALLBACK_ERROR)
          /\ progress_callback = Some("raises")
          /\ progress # << >>
    /\ pc = "raised" <=> raised # << >>

\* scan_folder has failed on a path that names a plain file.
C13_Witness ==
    /\ root = "file"
    /\ pc = "raised"
    /\ raised = Some(INVALID_INPUT)
    /\ progress_callback # << >>

----------------------------------------------------------------------------
\* The progress callback.

\* C14: with a progress callback supplied, the callback has been called
\* once for every task handed out by as_completed, after that task
\* finished; its k-th call reports completed = k, total = the number of
\* candidate files and the file name of the k-th task handed out; when
\* scan_folder returns it has been called once per candidate file.
C14_ProgressReportedPerTask ==
    /\ progress_callback = << >> => progress = << >>
    /\ progress_callback # << >> =>
          /\ Len(progress) = Len(yielded)
          /\ Len(progress) = completed
          /\ \A k \in 1..Len(progress) :
                /\ progress[k].completed = k
                /\ progress[k].total = Len(all_files)
                /\ progress[k].filename = JarName(JarOf(yielded[k]))
                /\ futures[yielded[k]].state = "FINISHED"
          /\ pc = "done" => Len(progress) = Len(all_files)

\* A scan with a callback has returned after three reports, the first of
\* them not for the first file submitted.
C14_Witness ==
    /\ pc = "done"
    /\ progress_callback # << >>
    /\ Len(progress) = 3
    /\ progress[1].filename # JarName(all_files[1])
    /\ progress[3].completed = 3

\* What a scan without a callback returns when it collects the tasks in
\* the given order.
ResultWithoutCallback(order) ==
    [mods |-> ConcatAll([k \in 1..Len(order) |->
                 ExtractSingleMod(all_files[order[k]], order[k] \in disabled_set).mod]),
     errors |-> ConcatAll([k \in 1..Len(order) |->
                 ExtractSingleMod(all_files[order[k]], order[k] \in disabled_set).error]),
     total_files |-> Len(all_files)]

----------------------------------------------------------------------------
\* The disabled flag.

\* The way a record was produced: by an extractor, by the manifest
\* fallback, or from the file name alone.
RecordOrigin(f) ==
    IF TryExtractors(JarOf(f), 1).mod # << >> THEN "extractor"
    ELSE IF FallbackExtraction(JarOf(f)) # << >> THEN "fallback"
    ELSE "minimal"

\* C16: the record a task returns, and every record of the aggregate, has
\* disabled = TRUE exactly when its archive is a *.jar.disabled file found
\* with include_disabled, whichever extractor, the manifest fallback or the
\* file name produced it.
C16_DisabledFlagFollowsArchive ==
    /\ \A f \in Finished :
          \A k \in 1..Len(OutcomeOf(f).mod) :
              OutcomeOf(f).mod[k].disabled =
                  (include_disabled /\ IsDisabledName(DirEntry(JarOf(f), FALSE)))
    /\ \A k \in 1..Len(result.mods) :
          result.mods[k].disabled =
              (result.mods[k].filename[Len(result.mods[k].filename)] = ".disabled")

\* A disabled archive whose record an extractor produced has been collected.
C16_Witness ==
    /\ pc = "done"
    /\ Len(result.mods) = 1
    /\ result.mods[1].disabled
    /\ JarOf(1).disabled
    /\ RecordOrigin(1) = "extractor"
    /\ result.mods[1].loader = "quilt"

----------------------------------------------------------------------------
\* Loader detection.

\* The TOML extractor produced the record of archive a from entry file.
TomlRecordFrom(a, file) ==
    /\ a.container = "zip"
    /\ tomllib
    /\ file \in a.files
    /\ file \notin a.bad

\* C17: of an archive that contains META-INF/neoforge.mods.toml, alone or
\* next to META-INF/mods.toml, the TOML extractor reads that file: its
\* record carries that file's displayName and the loader "neoforge",
\* whatever modLoader, the dependencies, the archive's name and
\* loaderVersion say; and when that file is unusable, mods.toml is not
\* read in its place.
C17_NeoForgeFileWins ==
    \A f \in Finished :
        LET a == JarOf(f) IN
        (tomllib /\ NEOFORGE_TOML \in a.files) =>
            IF NEOFORGE_TOML \in a.bad
            THEN \A k \in 1..Len(OutcomeOf(f).mod) :
                    OutcomeOf(f).mod[k].name # a.toml[FORGE_TOML].displayName
            ELSE /\ Len(OutcomeOf(f).mod) = 1
                 /\ OutcomeOf(f).mod[1].loader = "neoforge"
                 /\ OutcomeOf(f).mod[1].name = a.toml[NEOFORGE_TOML].displayName
                 /\ OutcomeOf(f).error = << >>

\* An archive with both TOML files, in which nothing but the presence of
\* neoforge.mods.toml speaks of NeoForge, was recorded as "neoforge".
C17_Witness ==
    /\ pc = "done"
    /\ JarOf(1).files = {NEOFORGE_TOML, FORGE_TOML}
    /\ JarOf(1).bad = {}
    /\ JarOf(1).base = <<"examplemod", "-", "Forge">>
    /\ JarOf(1).toml[NEOFORGE_TOML].modLoader = <<"javafml">>
    /\ JarOf(1).toml[NEOFORGE_TOML].loaderVersion = <<"[", "47", ",)">>
    /\ JarOf(1).toml[NEOFORGE_TOML].dependencies = << <<"minecraft">>, <<"forge">> >>
    /\ Len(result.mods) = 1
    /\ result.mods[1].loader = "neoforge"
    /\ result.mods[1].name = <<"Neo", "Mod">>

\* The text mentions NeoForge, in either spelling.
MentionsNeoForge(text) ==
    \E k \in 1..Len(text) : text[k] \in {"neoforge", "NeoForge"}

\* C18: the loader of a record of the TOML extractor is "neoforge" exactly
\* when the file read is neoforge.mods.toml, or modLoader contains
\* "neoforge", or a declared dependency's modId is "neoforge", or the
\* archive's name contains "neoforge", or loaderVersion contains
\* "neoforge", in any letter case; otherwise it is "forge".
C18_LoaderRules ==
    \A f \in Finished :
        LET a == JarOf(f)
            file == IF NEOFORGE_TOML \in a.files THEN NEOFORGE_TOML ELSE FORGE_TOML
        IN  TomlRecordFrom(a, file) =>
              /\ Len(OutcomeOf(f).mod) = 1
              /\ OutcomeOf(f).mod[1].loader \in {"neoforge", "forge"}
              /\ OutcomeOf(f).mod[1].loader = "neoforge" <=>
                    \/ file = NEOFORGE_TOML
                    \/ MentionsNeoForge(a.toml[file].modLoader)
                    \/ \E dep \in Range(a.toml[file].dependencies) :
                          dep \in { <<"neoforge">>, <<"NeoForge">> }
                    \/ MentionsNeoForge(JarName(a))
                    \/ MentionsNeoForge(a.toml[file].loaderVersion)

\* A mods.toml archive was recorded as "neoforge" for nothing but its
\* dependency on NeoForge.
C18_Witness ==
    /\ pc = "done"
    /\ JarOf(1).files = {FORGE_TOML}
    /\ JarOf(1).bad = {}
    /\ ~MentionsNeoForge(JarName(JarOf(1)))
    /\ ~MentionsNeoForge(JarOf(1).toml[FORGE_TOML].modLoader)
    /\ ~MentionsNeoForge(JarOf(1).toml[FORGE_TOML].loaderVersion)
    /\ <<"NeoForge">> \in Range(JarOf(1).toml[FORGE_TOML].dependencies)
    /\ Len(result.mods) = 1
    /\ result.mods[1].loader = "neoforge"

\* The spellings under which a loader word occurs in a file name: "forge"
\* also occurs inside "neoforge".
Spellings(word) ==
    CASE word = "fabric" -> {"fabric", "Fabric"}
      [] word = "neoforge" -> {"neoforge", "NeoForge"}
      [] word = "forge" -> {"forge", "Forge", "neoforge", "NeoForge"}
      [] word = "quilt" -> {"quilt", "Quilt"}

Occurs(filename, word) == \E k \in 1..Len(filename) : filename[k] \in Spellings(word)

HintOrder == <<"fabric", "neoforge", "forge", "quilt">>

\* The first word of HintOrder that occurs in the file name, else "unknown".
FirstHint(filename) ==
    LET S == { k \in 1..Len(HintOrder) : Occurs(filename, HintOrder[k]) } IN
    IF S = {} THEN "unknown"
    ELSE HintOrder[CHOOSE k \in S : \A j \in S : k <= j]

\* C19: the loader of a record of the manifest fallback is the first of
\* "fabric", "neoforge", "forge", "quilt" that occurs in the file name in
\* any letter case, and "unknown" when none does; a file name containing
\* "neoforge" is never classified "forge".
C19_FilenameHintOrder ==
    \A f \in Finished :
        LET a == JarOf(f) IN
        (a.container = "zip" /\ a.files = {MANIFEST} /\ a.bad = {}) =>
            /\ Len(OutcomeOf(f).mod) = 1
            /\ OutcomeOf(f).mod[1].loader = FirstHint(JarName(a))
            /\ Occurs(JarName(a), "neoforge") => OutcomeOf(f).mod[1].loader # "forge"

\* A manifest-only archive named Forge...NeoForge was classified "neoforge".
C19_Witness ==
    /\ pc = "done"
    /\ JarOf(1).files = {MANIFEST}
    /\ JarOf(1).base = <<"Forge", "NeoForge">>
    /\ Len(result.mods) = 1
    /\ result.mods[1].loader = "neoforge"
    /\ result.mods[1].name = ManifestData(JarOf(1)).name

----------------------------------------------------------------------------
\* Exceptions.

Populated(x) == x # None /\ x # << >>

LOADERS == {"fabric", "forge", "neoforge", "quilt", "unknown"}

\* C21: every record of the scan result has a populated name, a loader
\* among fabric, forge, neoforge, quilt and unknown, a populated version,
\* and the file name of the archive it was made from, whatever the
\* metadata declares -- a name or version that is present but empty or
\* null included.
C21_RequiredFieldsPopulated ==
    \A k \in 1..Len(appendLog) :
        appendLog[k].mod # << >> =>
            LET m == appendLog[k].mod[1] IN
            /\ Populated(m.name)
            /\ m.loader \in LOADERS
            /\ Populated(m.version)
            /\ m.filename = JarName(JarOf(appendLog[k].future))

\* The record of future f, made by the Fabric extractor from a document.
FabricRecordOf(f) ==
    /\ f \in Finished
    /\ "json" \in DOMAIN JarOf(f)
    /\ FABRIC_FILE \in JarOf(f).files
    /\ OutcomeOf(f).mod # << >>

\* C22: a record of the Fabric extractor made from metadata without an
\* id has the archive's base file name as its package identifier, and one
\* made from metadata without a name has the id as its display name, or
\* the archive's base file name when there is no id either.
C22_FabricFallsBackToBaseName ==
    \A f \in 1..Len(futures) :
        FabricRecordOf(f) =>
            LET data == JarOf(f).json
                m == OutcomeOf(f).mod[1]
            IN  /\ "id" \notin DOMAIN data => m.mod_id = JarStem(JarOf(f))
                /\ "name" \notin DOMAIN data =>
                       m.name = (IF "id" \in DOMAIN data THEN data.id
                                 ELSE JarStem(JarOf(f)))

\* The record of future f, made by the Quilt extractor from a document.
QuiltRecordOf(f) ==
    /\ f \in Finished
    /\ "json" \in DOMAIN JarOf(f)
    /\ QUILT_FILE \in JarOf(f).files
    /\ OutcomeOf(f).mod # << >>

\* C23: in a record of the Quilt extractor, no entry of the depends list
\* whose id is "minecraft" -- an object with that id or the bare string --
\* is among the dependencies; the constraint of such an object gives the
\* record's Minecraft versions; and the id of every other entry is among
\* the dependencies.
C23_QuiltDivertsMinecraft ==
    \A f \in 1..Len(futures) :
        QuiltRecordOf(f) =>
            LET depends == Get(JarOf(f).json, "depends", << >>)
                m == OutcomeOf(f).mod[1]
            IN  \A k \in 1..Len(depends) :
                    IF depends[k].id = MINECRAFT
                    THEN /\ MINECRAFT \notin Range(m.dependencies)
                         /\ (depends[k].kind = "object"
                              /\ \A j \in (k + 1)..Len(depends) :
                                     ~(depends[j].kind = "object" /\ depends[j].id = MINECRAFT))
                             => m.mc_versions = ParseMcVersions(depends[k].versions)
                    ELSE Truthy(depends[k].id) => depends[k].id \in Range(m.dependencies)

\* The direct call of the parser has returned; what it returned.
ParseReturned == versions # << >>
ParseOutput == versions[1]

\* v is digits, a dot, digits, and possibly a dot and digits again.
IsVersionShaped(v) ==
    /\ v # << >>
    /\ \A k \in 1..Len(v) : v[k] \in Digits \cup {"."}
    /\ v[1] \in Digits /\ v[Len(v)] \in Digits
    /\ \A k \in 1..(Len(v) - 1) : ~(v[k] = "." /\ v[k + 1] = ".")
    /\ Cardinality({ k \in 1..Len(v) : v[k] = "." }) \in {1, 2}

\* n is a numeral of s: a maximal run of digits and dots.
IsNumeralOf(n, s) ==
    \E i \in 1..Len(s) : \E j \in i..Len(s) :
        /\ SubSeq(s, i, j) = n
        /\ \A k \in i..j : s[k] \in Digits \cup {"."}
        /\ (i = 1 \/ s[i - 1] \notin Digits \cup {"."})
        /\ (j = Len(s) \/ s[j + 1] \notin Digits \cup {"."})

\* C24: for a constraint string, every element the parser returns has the
\* form major.minor or major.minor.patch and is a contiguous piece of a
\* numeral of the input; nothing is returned that does not occur in the
\* input.
C24_OutputsAreVersionsOfTheInput ==
    (ParseReturned /\ version_constraint.type = "str") =>
        \A k \in 1..Len(ParseOutput) :
            /\ IsVersionShaped(ParseOutput[k])
            /\ ContainsSeq(version_constraint.chars, ParseOutput[k])
            /\ \E i \in 1..Len(version_constraint.chars) :
                 \E j \in i..Len(version_constraint.chars) :
                    /\ IsNumeralOf(SubSeq(version_constraint.chars, i, j),
                                   version_constraint.chars)
                    /\ ContainsSeq(SubSeq(version_constraint.chars, i, j), ParseOutput[k])

\* The parser returned 1.20 and 1.20.1 for ">=1.20.1".
C24_Witness ==
    /\ ParseReturned
    /\ version_constraint = JStr(<<">", "=">> \o V1_20_1)
    /\ ParseOutput = <<V1_20, V1_20_1>>

\* The version tokens of a string: its maximal runs of digits, dots and
\* wildcard letters.
TokenChars == Digits \cup {".", "x", "*"}

TokensOf(s) ==
    { SubSeq(s, i, j) : <<i, j>> \in
        { <<i, j>> \in (1..Len(s)) \X (1..Len(s)) :
            /\ i <= j
            /\ \A k \in i..j : s[k] \in TokenChars
            /\ (i = 1 \/ s[i - 1] \notin TokenChars)
            /\ (j = Len(s) \/ s[j + 1] \notin TokenChars) } }

\* A token is a wildcard-suffixed version: major.minor.x or major.minor.*
IsWildcardVersion(t) ==
    /\ Len(t) > 2
    /\ t[Len(t) - 1] = "." /\ t[Len(t)] \in {"x", "*"}
    /\ IsVersionShaped(SubSeq(t, 1, Len(t) - 2))
    /\ Cardinality({ k \in 1..(Len(t) - 2) : t[k] = "." }) = 1

\* What a token contributes: a version itself, a wildcard-suffixed version
\* its major.minor prefix.
Contribution(t) == IF IsWildcardVersion(t) THEN SubSeq(t, 1, Len(t) - 2) ELSE t

\* The string is made of versions and wildcard-suffixed versions, with
\* comparators, brackets, commas and blanks around them.
IsSupportedConstraint(s) ==
    \A t \in TokensOf(s) : IsVersionShaped(t) \/ IsWildcardVersion(t)

\* C25: the parser returns exactly the version tokens of its input: of a
\* string, each version that is written in it and, for a wildcard-suffixed
\* version, only its major.minor prefix, so that "1.20.x" gives {1.20} and
\* ">=1.20 <1.21" gives {1.20, 1.21}; of a sequence, the union of what
\* its elements give; of null, an empty value or a value that is neither
\* a string nor a list, nothing.
C25_HarvestsExactlyTheTokens ==
    ParseReturned =>
        /\ (version_constraint.type = "str"
                /\ IsSupportedConstraint(version_constraint.chars)) =>
              Range(ParseOutput) =
                  { Contribution(t) : t \in TokensOf(version_constraint.chars) }
        /\ version_constraint = JStr(V1_20 \o <<".", "x">>) => Range(ParseOutput) = {V1_20}
        /\ version_constraint = RangeConstraint => Range(ParseOutput) = {V1_20, V1_21}
        /\ version_constraint = JList(<<JStr(V1_19), JStr(V1_20)>>) =>
              Range(ParseOutput) = {V1_19, V1_20}
        /\ version_constraint.type = "list" =>
              Range(ParseOutput) =
                  UNION { Range(ParseMcVersions(version_constraint.items[k])) :
                            k \in 1..Len(version_constraint.items) }
        /\ (version_constraint \in {JNull, JNumber, JStr(<< >>), JList(<< >>)}) =>
              ParseOutput = << >>

\* The input of the direct call is a string or a sequence of strings.
StringOrStrings(c) ==
    \/ c.type = "str"
    \/ c.type = "list" /\ \A k \in 1..Len(c.items) : c.items[k].type = "str"

\* C26: for a string and for a sequence of strings, what the parser
\* returns holds no element twice and is in lexicographically ascending
\* order.
C26_OutputSortedWithoutDuplicates ==
    (ParseReturned /\ StringOrStrings(version_constraint)) =>
        \A j \in 1..Len(ParseOutput) : \A k \in 1..Len(ParseOutput) :
            j < k => LexLess(ParseOutput[j], ParseOutput[k])

\* The extractors whose can_extract the task of future f has called, in
\* the order of the calls.
Consulted(f) ==
    LET checks == SelectSeq(calls[f], LAMBDA c : c[1] = "can_extract")
    IN  [k \in 1..Len(checks) |-> checks[k][2]]

\* C27: whatever list of extractors the scanner was given, in whatever
\* order, the can_extract checks on an archive are made by ascending
\* priority number: an extractor is consulted only after every extractor
\* of the scanner with a lower priority number has been consulted for
\* that archive.
C27_ConsultedInPriorityOrder ==
    \A f \in 1..Len(futures) :
        f \in DOMAIN calls =>
            /\ \A j \in 1..Len(Consulted(f)) : \A k \in 1..Len(Consulted(f)) :
                   j < k => Priority(Consulted(f)[j]) <= Priority(Consulted(f)[k])
            /\ \A k \in 1..Len(Consulted(f)) :
                   \A e \in Range(extractors) :
                       Priority(e) < Priority(Consulted(f)[k]) =>
                           \E j \in 1..(k - 1) : Consulted(f)[j] = e

\* An archive that no extractor accepts was put to three extractors of a
\* scanner that was given three, and they were asked in priority order.
C27_Witness ==
    /\ pc = "done"
    /\ extractors = <<Fabric, ForgeToml, LegacyForge>>
    /\ Consulted(1) = <<Fabric, ForgeToml, LegacyForge>>

\* list s is how list t begins.
IsPrefix(s, t) == Len(s) <= Len(t) /\ SubSeq(t, 1, Len(s)) = s

\* What a step may do to the aggregate: add one record at the end of mods
\* and one error at the end of errors, or fewer; only the collection of a
\* finished task does so, and it leaves total_files alone.
AggregateOnlyGrows ==
    /\ IsPrefix(result.mods, result'.mods)
    /\ Len(result'.mods) <= Len(result.mods) + 1
    /\ IsPrefix(result.errors, result'.errors)
    /\ Len(result'.errors) <= Len(result.errors) + 1
    /\ <<result.mods, result.errors>> # <<result'.mods, result'.errors>> =>
           /\ pc = "collect"
           /\ cur \in Finished
           /\ cur' = 0
    /\ pc = "collect" => result'.total_files = result.total_files

\* C28: during a scan the aggregate changes only by what the collection
\* of a finished task adds: at most one record at the end of mods and at
\* most one error at the end of errors; no entry is removed, replaced or
\* moved, and no collection step changes total_files.
C28_AggregateChangesByAppends == [][AggregateOnlyGrows]_vars

\* A scan has returned in which every collection added to the aggregate:
\* two records and, for the archive without metadata and the corrupt
\* file, two errors.
C28_Witness ==
    /\ pc = "done"
    /\ Len(appendLog) = 3
    /\ Len(result.mods) = 2
    /\ Len(result.errors) = 2
    /\ result.total_files = 3

\* The number of tasks in collection: one while the loop body works on a
\* future it has counted, none otherwise.
InCollection == IF cur # 0 THEN 1 ELSE 0

\* C29: at every point of a scan, with c the number of tasks collected so
\* far, mods and errors hold at most c entries each and together at
\* least c, less the task in collection; when scan_folder has returned,
\* each holds at most total_files entries and together they hold at least
\* total_files: every file considered left a record or an error.
C29_CountsBoundedByCollected ==
    /\ Len(result.mods) <= completed
    /\ Len(result.errors) <= completed
    /\ Len(result.mods) + Len(result.errors) >= completed - InCollection
    /\ pc = "done" =>
          /\ Len(result.mods) <= result.total_files
          /\ Len(result.errors) <= result.total_files
          /\ Len(result.mods) + Len(result.errors) >= result.total_files

\* The second task is in collection after a corrupt file left one error
\* and no record: the aggregate holds one entry fewer than tasks counted.
C29_Witness ==
    /\ pc = "collect"
    /\ cur # 0
    /\ completed = 2
    /\ Len(result.mods) = 0
    /\ Len(result.errors) = 1

\* The fields of a record other than disabled.
OtherFields ==
    {"name", "loader", "version", "filename", "mod_id", "dependencies", "author",
     "description", "mc_versions"}

\* C30: the disabled flag changes nothing but the disabled field: what the
\* inspection of an archive gave under the flag it was run with, and what
\* it gives for the same archive under the other flag, have a record or
\* none alike, records equal in name, loader, version, filename, mod_id,
\* dependencies, author, description and mc_versions, and an error string
\* or none alike.
C30_DisabledChangesOnlyItsField ==
    \A f \in Finished :
        futures[f].exception = << >> =>
            LET out == OutcomeOf(f)
                other == ExtractSingleMod(JarOf(f), ~futures[f].disabled)
            IN  /\ (out.mod = << >>) = (other.mod = << >>)
                /\ out.mod # << >> =>
                      /\ \A field \in OtherFields : out.mod[1][field] = other.mod[1][field]
                      /\ out.mod[1].disabled = futures[f].disabled
                      /\ other.mod[1].disabled = ~futures[f].disabled
                /\ (out.error = << >>) = (other.error = << >>)

\* The task of a disabled archive has returned a record that carries an
\* id, dependencies, an author, a description and Minecraft versions.
C30_Witness ==
    /\ 1 \in Finished
    /\ futures[1].disabled
    /\ OutcomeOf(1).mod # << >>
    /\ OutcomeOf(1).mod[1].disabled
    /\ OutcomeOf(1).mod[1].mod_id = <<"examplemod">>
    /\ OutcomeOf(1).mod[1].dependencies = << <<"qsl">>, <<"quilt_loader">> >>
    /\ OutcomeOf(1).mod[1].author = <<"Ann", ", ", "Bob">>
    /\ OutcomeOf(1).mod[1].description = <<"A", "mod">>
    /\ OutcomeOf(1).mod[1].mc_versions = <<V1_20, V1_21>>
====
